---- MODULE Spec2Model ----
(***************************************************************************)
(* A model of the citation-resolving query-and-retrieval pipeline:         *)
(*   - the text segmenter        (backend/app/services/text_analysis.py)   *)
(*   - the retrieval orchestrator and citation resolver                    *)
(*       (backend/app/services/vectorstore/query_processor.py)             *)
(*   - the theme aggregator      (backend/app/services/theme_identification.py) *)
(*   - the chunked document read (backend/app/services/document_service.py) *)
(*                                                                         *)
(* A text is a sequence of one-character strings; an offset is 0-based as  *)
(* in Python, so the slice text[a:b] is SubSeq(text, a + 1, b).            *)
(* A relevance is an integer number of hundredths (0.7 is 70).             *)
(***************************************************************************)
EXTENDS Integers, Sequences, FiniteSets, TLC

VARIABLES
    seg_pc,        \* "input" | "done": whether analyze_document has returned
    seg_text,      \* the raw text handed to analyze_document
    seg_result,    \* what analyze_document returned
    seg_fault,     \* what goes wrong in the call: "none" | "tokenizer" | "no_text"
    id_pc,         \* "input" | "first" | "done": the calls of generate_text_id made
    id_text1,      \* the argument of the first call of generate_text_id
    id_text2,      \* the argument of the second call
    id_out1,       \* what the first call returned
    id_out2,       \* what the second call returned
    th_pc,         \* "input" | "done": whether identify_themes has returned
    th_matches,    \* the matches handed to identify_themes
    th_key,        \* whether settings.GEMINI_API_KEY is set
    th_calls,      \* the number of upstream generation calls made
    th_result,     \* what identify_themes returned
    th_response,   \* what the generation service did when it was called
    r_pc,          \* "input" | "done": whether the resolver has returned
    r_level,       \* the citation level
    r_shape,       \* "list" | "matches": the shape of the upstream response
    r_item,        \* an item of the upstream response
    r_in,          \* the match call_gemini_api returns for the item
    r_out,         \* the match enhance_matches_with_citation_info leaves
    q_request,     \* the call: through process_query or the /query endpoint, with
                   \* the document_ids and the citation_level the caller named
    q_pc,          \* "request" | "start" | "batch" | "done" | "raised": where
                   \* the endpoint and process_query are
    q_query,       \* the query
    q_ids,         \* document_ids
    q_threshold,   \* relevance_threshold, in hundredths
    q_level,       \* citation_level
    q_key,         \* whether settings.GEMINI_API_KEY is set
    q_unreadable,  \* the ids of the documents whose content file cannot be read
    q_docs,        \* doc_contents, as places in the store
    q_i,           \* the offset of the next batch in doc_contents
    q_matches,     \* matches, before the sort
    q_responses,   \* what the generation service answered, batch after batch
    q_result,      \* what process_query returned
    c_pc,          \* "reading" | "end": whether the reader of chunks goes on
    c_doc,         \* "stored" | "no_file" | "no_row": the document asked for
    c_content,     \* the content of the document's content file
    c_size,        \* chunk_size
    c_index,       \* the chunk_index of the next call of get_document_chunk
    c_out,         \* what the last call of get_document_chunk returned
    c_read,        \* the contents of the chunks returned so far, joined
    m_pc,          \* "input" | "compared" | "merged": the call made on the themes
    m_themes,      \* the themes handed to merge_similar_themes
    m_t,           \* the threshold handed to are_themes_similar, in hundredths
    m_similar,     \* what are_themes_similar returned
    m_merged,      \* what merge_similar_themes returned
    x_pc,          \* "start" | "running" | "gathered" | "done" | "raised": where
                   \* identify_themes_across_documents is
    x_docs,        \* documents: for each, what the generation service would
                   \* answer for each of its key sections
    x_max_themes,  \* max_themes
    x_workers,     \* max_workers of the pool
    x_tasks,       \* for each document, "queued" | "running" | "done"
    x_results,     \* for each document, what its task returned
    x_calls,       \* the number of generation calls made
    x_result       \* what identify_themes_across_documents returned

seg_vars == <<seg_pc, seg_text, seg_result, seg_fault>>

id_vars == <<id_pc, id_text1, id_text2, id_out1, id_out2>>

th_vars == <<th_pc, th_matches, th_key, th_calls, th_result, th_response>>

r_vars == <<r_pc, r_level, r_shape, r_item, r_in, r_out>>

q_vars == <<q_request, q_pc, q_query, q_ids, q_threshold, q_level, q_key, q_unreadable,
            q_docs, q_i, q_matches, q_responses, q_result>>

c_vars == <<c_pc, c_doc, c_content, c_size, c_index, c_out, c_read>>

m_vars == <<m_pc, m_themes, m_t, m_similar, m_merged>>

x_vars == <<x_pc, x_docs, x_max_themes, x_workers, x_tasks, x_results, x_calls, x_result>>

vars == <<seg_vars, id_vars, th_vars, r_vars, q_vars, c_vars, m_vars, x_vars>>

---------------------------------------------------------------------------
(* Bounds of the model *)

MaxTextLen == 6

\* the longest tail appended to the body of a text handed to generate_text_id
MaxTailLen == 2

\* the most matches handed to identify_themes
MaxThemeMatches == 2

\* the most themes in one upstream response
MaxThemes == 2

\* the largest paragraph number an upstream item names
MaxParagraphHint == 2

\* the largest page number an upstream item names
MaxPage == 1

\* the most themes handed to merge_similar_themes
MaxMergeThemes == 3

\* the most documents handed to identify_themes_across_documents
MaxAcrossDocs == 6

\* the longest content of a document read chunk by chunk
MaxContentLen == 5

\* the largest chunk_size
MaxChunkSize == 3

\* the largest chunk_index asked for
MaxChunkIndex == 6

---------------------------------------------------------------------------
(* Python values *)

\* Python's None, for an integer field that is absent
None == -99

\* str.find's "not found"
NotFound == -1

\* a match without a filename
NoFilename == "<no filename>"

Min(a, b) == IF a <= b THEN a ELSE b

Max(a, b) == IF a >= b THEN a ELSE b

---------------------------------------------------------------------------
(* A component that is not used by a specification stays at rest *)

NoAnalysis ==
    [document_id |-> None, paragraphs |-> <<>>, sentences |-> <<>>,
     statistics |-> [paragraph_count |-> 0, sentence_count |-> 0]]

SegIdle ==
    /\ seg_pc = "idle"
    /\ seg_text = <<>>
    /\ seg_result = NoAnalysis
    /\ seg_fault = "none"

IdIdle ==
    /\ id_pc = "idle"
    /\ id_text1 = <<>>
    /\ id_text2 = <<>>
    /\ id_out1 = <<>>
    /\ id_out2 = <<>>

ThIdle ==
    /\ th_pc = "idle"
    /\ th_matches = <<>>
    /\ th_key = FALSE
    /\ th_calls = 0
    /\ th_result = <<>>
    /\ th_response = <<>>

ResolveIdle ==
    /\ r_pc = "idle"
    /\ r_level = "document"
    /\ r_shape = "list"
    /\ r_item = <<>>
    /\ r_in = <<>>
    /\ r_out = <<>>

QueryIdle ==
    /\ q_request = [via |-> "none", document_ids |-> <<>>, citation_level |-> "document"]
    /\ q_pc = "idle"
    /\ q_query = <<>>
    /\ q_ids = <<>>
    /\ q_threshold = 0
    /\ q_level = "document"
    /\ q_key = FALSE
    /\ q_unreadable = {}
    /\ q_docs = <<>>
    /\ q_i = 0
    /\ q_matches = <<>>
    /\ q_responses = <<>>
    /\ q_result = <<>>

\* get_document_chunk's None
NoChunk ==
    [document_id |-> None, chunk_index |-> None, chunk_size |-> None,
     content |-> <<>>, is_last_chunk |-> FALSE]

ChunkIdle ==
    /\ c_pc = "idle"
    /\ c_doc = "stored"
    /\ c_content = <<>>
    /\ c_size = 1
    /\ c_index = 0
    /\ c_out = NoChunk
    /\ c_read = <<>>

\* what are_themes_similar returns: the ratio num / den (is_ratio) or a
\* bool, and the truth value an if statement sees in it
NoSimilarity ==
    [theme1 |-> <<>>, theme2 |-> <<>>, is_ratio |-> FALSE, num |-> 0, den |-> 1,
     truth |-> FALSE]

MergeIdle ==
    /\ m_pc = "idle"
    /\ m_themes = <<>>
    /\ m_t = 0
    /\ m_similar = NoSimilarity
    /\ m_merged = <<>>

AcrossIdle ==
    /\ x_pc = "idle"
    /\ x_docs = <<>>
    /\ x_max_themes = 0
    /\ x_workers = 0
    /\ x_tasks = <<>>
    /\ x_results = <<>>
    /\ x_calls = 0
    /\ x_result = <<>>

---------------------------------------------------------------------------
(* Strings: the str methods the program uses *)

\* str.isspace for one character
IsSpace(c) == c \in {" ", "\n", "\r", "\t"}

\* text[a:b] with 0 <= a, b
Slice(s, a, b) == SubSeq(s, a + 1, Min(b, Len(s)))

\* s.startswith(sub, at)
MatchesAt(s, sub, at) ==
    /\ at >= 0
    /\ at + Len(sub) <= Len(s)
    /\ \A k \in 1..Len(sub) : s[at + k] = sub[k]

\* a mutant of Find: the search ignores the start position
FindFromZero(s, sub, start) ==
    LET hits == {p \in 0..Len(s) : MatchesAt(s, sub, p)}
    IN  IF hits = {} THEN NotFound ELSE CHOOSE p \in hits : \A q \in hits : p <= q

\* s.find(sub, start): the lowest offset >= start where sub occurs, else -1
Find(s, sub, start) ==
    LET hits == {p \in start..Len(s) : MatchesAt(s, sub, p)}
    IN  IF hits = {} THEN NotFound ELSE CHOOSE p \in hits : \A q \in hits : p <= q

\* sub in s
Contains(s, sub) == Find(s, sub, 0) # NotFound

\* s.lstrip()
RECURSIVE LStrip(_)
LStrip(s) == IF s # <<>> /\ IsSpace(Head(s)) THEN LStrip(Tail(s)) ELSE s

\* s.rstrip()
RECURSIVE RStrip(_)
RStrip(s) ==
    IF s # <<>> /\ IsSpace(s[Len(s)]) THEN RStrip(SubSeq(s, 1, Len(s) - 1)) ELSE s

\* s.strip()
Strip(s) == RStrip(LStrip(s))

\* the offset of the first non-space character at or after p, Len(s) if none
RECURSIVE SkipSpace(_, _)
SkipSpace(s, p) ==
    IF p < Len(s) /\ IsSpace(s[p + 1]) THEN SkipSpace(s, p + 1) ELSE p

\* s.replace(old, new), left to right, non-overlapping; old is not empty
RECURSIVE Replace(_, _, _)
Replace(s, old, new) ==
    IF s = <<>> THEN <<>>
    ELSE IF MatchesAt(s, old, 0)
         THEN new \o Replace(SubSeq(s, Len(old) + 1, Len(s)), old, new)
         ELSE <<Head(s)>> \o Replace(Tail(s), old, new)

\* s.split(sep): the pieces between the occurrences of sep, found left to right
RECURSIVE Split(_, _)
Split(s, sep) ==
    LET p == Find(s, sep, 0)
    IN  IF p = NotFound THEN <<s>>
        ELSE <<Slice(s, 0, p)>> \o Split(SubSeq(s, p + Len(sep) + 1, Len(s)), sep)

---------------------------------------------------------------------------
(* hashlib.md5 and generate_text_id *)

HexDigits == <<"0", "1", "2", "3", "4", "5", "6", "7", "8", "9", "a", "b", "c", "d", "e", "f">>

\* the characters of the model's texts; a character's code is its place here
Chars == <<"\n", "\r", "\t", " ", ".", "!", "?", ",", "0", "1", "2", "3",
           "a", "b", "c", "d", "e", "g", "h", "n", "o", "p", "r", "s", "t", "w",
           "P", "S">>

CharCode(c) == CHOOSE i \in 1..Len(Chars) : Chars[i] = c

\* one 16-bit lane of the digest: the characters lo..hi of s, each weighted
\* by its place, summed modulo 2^16
RECURSIVE Lane(_, _, _, _)
Lane(s, lo, hi, mult) ==
    IF lo > hi THEN 0
    ELSE IF lo = hi THEN (CharCode(s[lo]) * (((lo * mult) % 251) + 1)) % 65536
    ELSE LET mid == (lo + hi) \div 2
         IN  (Lane(s, lo, mid, mult) + Lane(s, mid + 1, hi, mult)) % 65536

\* four hexadecimal digits of a 16-bit value
Hex4(v) ==
    <<HexDigits[((v \div 4096) % 16) + 1], HexDigits[((v \div 256) % 16) + 1],
      HexDigits[((v \div 16) % 16) + 1], HexDigits[(v % 16) + 1]>>

\* hashlib.md5(s.encode()).hexdigest(): 32 hexadecimal digits, a function of
\* every character of s (the digest itself is the library's; the model keeps
\* its shape and its dependence on the whole input)
Md5Hex(s) ==
    Hex4(Lane(s, 1, Len(s), 31)) \o Hex4(Lane(s, 1, Len(s), 37)) \o Hex4(Lane(s, 1, Len(s), 41)) \o
    Hex4(Lane(s, 1, Len(s), 43)) \o Hex4(Lane(s, 1, Len(s), 47)) \o Hex4(Lane(s, 1, Len(s), 53)) \o
    Hex4(Lane(s, 1, Len(s), 59)) \o Hex4(Lane(s, 1, Len(s), 61))

\* text_analysis.py: the length of the sample that is hashed
IdSampleLen == 100

\* text_analysis.py: the length of an id
IdLen == 12

\* a mutant of generate_text_id: the id is cut two digits short
generate_text_id_short(text) ==
    SubSeq(Md5Hex(Strip(Slice(Strip(text), 0, IdSampleLen))), 1, IdLen - 2)

\* a mutant of generate_text_id: the whole text is hashed
generate_text_id_whole(text) == SubSeq(Md5Hex(Strip(text)), 1, IdLen)

generate_text_id(text) ==
    SubSeq(Md5Hex(Strip(Slice(Strip(text), 0, IdSampleLen))), 1, IdLen)

---------------------------------------------------------------------------
(* TextAnalyzer *)

\* the for loop of split_into_paragraphs from raw paragraph i (0-based) on
RECURSIVE SplitParagraphsLoop(_, _, _, _, _)
SplitParagraphsLoop(text, raw, i, start_pos, paragraphs) ==
    IF i >= Len(raw) THEN paragraphs
    ELSE LET para == Strip(raw[i + 1])
         IN  IF para = <<>>
             THEN SplitParagraphsLoop(text, raw, i + 1, start_pos + 2, paragraphs)
             ELSE LET para_pos == Find(text, para, start_pos)
                      end_pos == para_pos + Len(para)
                  IN  IF para_pos = NotFound
                      THEN SplitParagraphsLoop(text, raw, i + 1, start_pos, paragraphs)
                      ELSE SplitParagraphsLoop(text, raw, i + 1, end_pos,
                               Append(paragraphs,
                                      [index |-> i,
                                       content |-> para,
                                       position |-> [start |-> para_pos, end |-> end_pos]]))

\* the text split_into_paragraphs works on: line endings normalised
NormalizeNewlines(text) == Replace(text, <<"\r", "\n">>, <<"\n">>)

split_into_paragraphs(text) ==
    LET norm == NormalizeNewlines(text)
    IN  SplitParagraphsLoop(norm, Split(norm, <<"\n", "\n">>), 0, 0, <<>>)

\* a sentence ends at ., ! or ?
IsTerminator(c) == c \in {".", "!", "?"}

\* nltk's sent_tokenize from the sentence start `from`, scanning at offset p:
\* a sentence breaks after a terminator that is followed by white space and
\* then by more text; every sentence is a slice of the text without
\* surrounding white space, and the sentences come in text order
RECURSIVE SentTokenizeFrom(_, _, _)
SentTokenizeFrom(s, from, p) ==
    IF p >= Len(s)
    THEN IF RStrip(Slice(s, from, Len(s))) = <<>> THEN <<>>
         ELSE <<RStrip(Slice(s, from, Len(s)))>>
    ELSE IF /\ IsTerminator(s[p + 1])
            /\ p + 1 < Len(s)
            /\ IsSpace(s[p + 2])
            /\ SkipSpace(s, p + 1) < Len(s)
         THEN <<Slice(s, from, p + 1)>>
                  \o SentTokenizeFrom(s, SkipSpace(s, p + 1), SkipSpace(s, p + 1))
         ELSE SentTokenizeFrom(s, from, p + 1)

sent_tokenize(s) == SentTokenizeFrom(s, SkipSpace(s, 0), SkipSpace(s, 0))

\* the for loop of split_paragraph_into_sentences from sentence text i on
RECURSIVE SplitSentencesLoop(_, _, _, _, _)
SplitSentencesLoop(paragraph, sentence_texts, i, start_pos, sentences) ==
    IF i >= Len(sentence_texts) THEN sentences
    ELSE LET sent_text == sentence_texts[i + 1]
             sent_pos == Find(paragraph.content, sent_text, start_pos)
             abs_start == paragraph.position.start + sent_pos
             abs_end == abs_start + Len(sent_text)
         IN  IF sent_pos = NotFound
             THEN SplitSentencesLoop(paragraph, sentence_texts, i + 1, start_pos, sentences)
             ELSE SplitSentencesLoop(paragraph, sentence_texts, i + 1,
                      sent_pos + Len(sent_text),
                      Append(sentences,
                             [index |-> i,
                              paragraph_index |-> paragraph.index,
                              content |-> sent_text,
                              position |-> [start |-> abs_start, end |-> abs_end],
                              id |-> generate_text_id(sent_text)]))

\* a mutant of split_paragraph_into_sentences: the offsets stay relative to the paragraph
split_paragraph_into_sentences_relative(paragraph) ==
    SplitSentencesLoop([paragraph EXCEPT !.position.start = 0],
                       sent_tokenize(paragraph.content), 0, 0, <<>>)

split_paragraph_into_sentences(paragraph) ==
    SplitSentencesLoop(paragraph, sent_tokenize(paragraph.content), 0, 0, <<>>)

\* the sentences of the paragraphs from paragraph k (1-based place in the list) on
RECURSIVE SentencesOf(_, _)
SentencesOf(paragraphs, k) ==
    IF k > Len(paragraphs) THEN <<>>
    ELSE split_paragraph_into_sentences(paragraphs[k]) \o SentencesOf(paragraphs, k + 1)

analyze_document(document_id, text) ==
    LET paragraphs == split_into_paragraphs(text)
        sentences == SentencesOf(paragraphs, 1)
    IN  [document_id |-> document_id,
         paragraphs |-> [k \in 1..Len(paragraphs) |->
                            [index |-> paragraphs[k].index,
                             content |-> paragraphs[k].content,
                             position |-> paragraphs[k].position,
                             id |-> generate_text_id(paragraphs[k].content),
                             document_id |-> document_id]],
         sentences |-> [k \in 1..Len(sentences) |->
                            [index |-> sentences[k].index,
                             paragraph_index |-> sentences[k].paragraph_index,
                             content |-> sentences[k].content,
                             position |-> sentences[k].position,
                             id |-> sentences[k].id,
                             document_id |-> document_id]],
         statistics |-> [paragraph_count |-> Len(paragraphs),
                         sentence_count |-> Len(sentences)]]

---------------------------------------------------------------------------
(* More of Python's str, as query_processor.py uses it *)

\* str.lower for one character
LowerChar(c) == CASE c = "P" -> "p" [] c = "S" -> "s" [] OTHER -> c

\* s.lower()
Lower(s) == [k \in 1..Len(s) |-> LowerChar(s[k])]

IsDigit(c) == c \in {"0", "1", "2", "3", "4", "5", "6", "7", "8", "9"}

DigitValue(c) ==
    CASE c = "0" -> 0 [] c = "1" -> 1 [] c = "2" -> 2 [] c = "3" -> 3 [] c = "4" -> 4
      [] c = "5" -> 5 [] c = "6" -> 6 [] c = "7" -> 7 [] c = "8" -> 8 [] c = "9" -> 9

\* the offset after the digits that start at offset p
RECURSIVE SkipDigits(_, _)
SkipDigits(s, p) ==
    IF p < Len(s) /\ IsDigit(s[p + 1]) THEN SkipDigits(s, p + 1) ELSE p

\* int(s[a:b]) for a run of digits
RECURSIVE IntOf(_, _, _)
IntOf(s, a, b) ==
    IF a >= b THEN 0 ELSE IntOf(s, a, b - 1) * 10 + DigitValue(s[b])

\* the offset after the word that starts at offset p
RECURSIVE SkipWord(_, _)
SkipWord(s, p) ==
    IF p < Len(s) /\ ~IsSpace(s[p + 1]) THEN SkipWord(s, p + 1) ELSE p

\* set(s.split()): the words of s, at offset p and after
RECURSIVE WordsFrom(_, _)
WordsFrom(s, p) ==
    LET a == SkipSpace(s, p)
    IN  IF a >= Len(s) THEN {}
        ELSE {Slice(s, a, SkipWord(s, a))} \cup WordsFrom(s, SkipWord(s, a))

WordSet(s) == WordsFrom(s, 0)

\* re.search(word \s* (\d+), s) for a literal word: the number of the
\* leftmost match, None if there is none
RegexNumberAfter(s, word) ==
    LET hits == {p \in 0..Len(s) :
                    /\ MatchesAt(s, word, p)
                    /\ SkipSpace(s, p + Len(word)) < Len(s)
                    /\ IsDigit(s[SkipSpace(s, p + Len(word)) + 1])}
    IN  IF hits = {} THEN None
        ELSE LET p == CHOOSE x \in hits : \A y \in hits : x <= y
                 d == SkipSpace(s, p + Len(word))
             IN  IntOf(s, d, SkipDigits(s, d))

\* re.search(r'para(?:graph)?\s*(\d+)', s): at the leftmost "para" that
\* matches, "graph" is taken when it follows
RegexPara(s) ==
    LET hits == {p \in 0..Len(s) :
                    /\ MatchesAt(s, <<"p", "a", "r", "a">>, p)
                    /\ LET q == IF MatchesAt(s, <<"g", "r", "a", "p", "h">>, p + 4)
                                THEN p + 9 ELSE p + 4
                       IN  /\ SkipSpace(s, q) < Len(s)
                           /\ IsDigit(s[SkipSpace(s, q) + 1])}
    IN  IF hits = {} THEN None
        ELSE LET p == CHOOSE x \in hits : \A y \in hits : x <= y
                 q == IF MatchesAt(s, <<"g", "r", "a", "p", "h">>, p + 4)
                      THEN p + 9 ELSE p + 4
                 d == SkipSpace(s, q)
             IN  IntOf(s, d, SkipDigits(s, d))

\* re.search(r'page\s*(\d+)', s)
RegexPage(s) == RegexNumberAfter(s, <<"p", "a", "g", "e">>)

\* re.match(r'^\s*(\d+)\s+', s): the number a text starts with, None if none
RegexSection(s) ==
    LET d == SkipSpace(s, 0)
        e == SkipDigits(s, d)
    IN  IF e > d /\ e < Len(s) /\ IsSpace(s[e + 1]) THEN IntOf(s, d, e) ELSE None

---------------------------------------------------------------------------
(* Sequences *)

\* the sequences over S of length at most n
SeqsUpTo(S, n) == UNION {[1..k -> S] : k \in 0..n}

\* [x for x in s if keep[x]]: the elements of s whose place is in `keep`
RECURSIVE FilterPlaces(_, _, _)
FilterPlaces(s, keep, k) ==
    IF k > Len(s) THEN <<>>
    ELSE (IF k \in keep THEN <<s[k]>> ELSE <<>>) \o FilterPlaces(s, keep, k + 1)

---------------------------------------------------------------------------
(* theme_identification.py: identify_themes *)

\* A response text of the generation service is a sequence of tokens: an
\* opening fence (three backquotes, with or without json), a closing fence,
\* prose, or the text of a JSON array (v: the array).
FenceJson == [t |-> "fence_json", v |-> <<>>]

Fence == [t |-> "fence", v |-> <<>>]

Prose == [t |-> "prose", v |-> <<>>]

ArrayText(v) == [t |-> "array", v |-> v]

\* the outcome of a generation call that raised (a transport error)
Raised == <<[t |-> "raise", v |-> <<>>]>>

\* lines 102-108: the code fences around the content are removed
StripFence(content) ==
    LET opened == IF content # <<>> /\ Head(content).t \in {"fence_json", "fence"}
                  THEN Tail(content) ELSE content
    IN  IF opened # <<>> /\ opened[Len(opened)].t = "fence"
        THEN SubSeq(opened, 1, Len(opened) - 1) ELSE opened

\* json.loads succeeds on the text of one JSON value and nothing else
JsonLoadsOk(content) == Len(content) = 1 /\ content[1].t = "array"

\* the salvage pattern of lines 117-118: from the first opening bracket to
\* the last closing bracket of the content
ArrayPlaces(content) == {k \in 1..Len(content) : content[k].t = "array"}

SalvagedText(content) ==
    LET first == CHOOSE k \in ArrayPlaces(content) : \A j \in ArrayPlaces(content) : k <= j
        last == CHOOSE k \in ArrayPlaces(content) : \A j \in ArrayPlaces(content) : k >= j
    IN  SubSeq(content, first, last)

\* call_gemini_api of theme_identification.py, on a response that did not raise
theme_call_gemini_api(response) ==
    LET content == StripFence(response)
    IN  IF JsonLoadsOk(content) THEN content[1].v
        ELSE IF ArrayPlaces(content) # {} /\ JsonLoadsOk(SalvagedText(content))
             THEN SalvagedText(content)[1].v
             ELSE <<>>

\* a mutant of ValidDocs: the supporting documents are not verified
ValidDocsUnverified(docs, document_ids) == docs

\* the supporting documents of a theme that are among document_ids
ValidDocs(docs, document_ids) ==
    FilterPlaces(docs,
                 {k \in 1..Len(docs) : \E j \in 1..Len(document_ids) : document_ids[j] = docs[k]},
                 1)

RECURSIVE FormatThemesLoop(_, _, _)
FormatThemesLoop(themes, document_ids, i) ==
    IF i >= Len(themes) THEN <<>>
    ELSE LET theme == themes[i + 1]
             valid_docs == ValidDocs(theme.supporting_documents, document_ids)
         IN  (IF valid_docs # <<>>
              THEN <<[id |-> i + 1,
                      theme_name |-> theme.theme_name,
                      summary |-> theme.summary,
                      supporting_documents |-> valid_docs,
                      evidence |-> theme.evidence]>>
              ELSE <<>>) \o FormatThemesLoop(themes, document_ids, i + 1)

format_themes(themes, document_ids) == FormatThemesLoop(themes, document_ids, 0)

\* match.get("filename", f"Doc {match.get('id', 'unknown')}")
ThemeDocName(match) ==
    IF match.filename # NoFilename THEN match.filename ELSE "Doc " \o ToString(match.id)

\* a mutant of identify_themes: the credential is not looked at
identify_themes_no_key_check(matches, key, outcome) ==
    IF matches = <<>> THEN [result |-> <<>>, calls |-> 0, raised |-> FALSE]
    ELSE IF outcome = Raised THEN [result |-> <<>>, calls |-> 1, raised |-> FALSE]
    ELSE [result |-> format_themes(theme_call_gemini_api(outcome),
                                   [k \in 1..Len(matches) |-> ThemeDocName(matches[k])]),
          calls |-> 1, raised |-> FALSE]

\* a mutant of identify_themes: without the except clause of lines 45-47
identify_themes_no_except(matches, key, outcome) ==
    IF matches = <<>> THEN [result |-> <<>>, calls |-> 0, raised |-> FALSE]
    ELSE IF ~key THEN [result |-> <<>>, calls |-> 0, raised |-> FALSE]
    ELSE IF outcome = Raised THEN [result |-> <<>>, calls |-> 1, raised |-> TRUE]
    ELSE [result |-> format_themes(theme_call_gemini_api(outcome),
                                   [k \in 1..Len(matches) |-> ThemeDocName(matches[k])]),
          calls |-> 1, raised |-> FALSE]

\* identify_themes: what it returns, how many generation calls it makes and
\* whether it raises, `outcome` being what the generation call does if it is
\* made; the exception call_gemini_api raises again (line 132) is caught at
\* lines 45-47
identify_themes(matches, key, outcome) ==
    IF matches = <<>> THEN [result |-> <<>>, calls |-> 0, raised |-> FALSE]
    ELSE IF ~key THEN [result |-> <<>>, calls |-> 0, raised |-> FALSE]
    ELSE IF outcome = Raised THEN [result |-> <<>>, calls |-> 1, raised |-> FALSE]
    ELSE [result |-> format_themes(theme_call_gemini_api(outcome),
                                   [k \in 1..Len(matches) |-> ThemeDocName(matches[k])]),
          calls |-> 1, raised |-> FALSE]

---------------------------------------------------------------------------
(* The document store: the Document rows and the content files *)

\* the text of the end-to-end scenario: two paragraphs, the second of two sentences
E2EText ==
    <<"P", "a", "r", "a", " ", "o", "n", "e", ".", "\n", "\n", "P", "a", "r", "a", " ", "t", "w", "o", ".", " ", "S", "e", "c", "o", "n", "d", " ", "s", "e", "n", "t", "e", "n", "c", "e", ".">>

\* a text with a run of blank lines between its two paragraphs
GapText ==
    <<"P", "a", "r", "a", " ", "t", "w", "o", ".", "\n", "\n", "\n", "\n", "S", "e", "c", "o", "n", "d", ".", " ", "P", "a", "r", "a", " ", "t", "w", "o", ".">>

\* db.query(Document).all(): more documents than one batch holds
StoreDocs ==
    <<[id |-> 1, filename |-> "e2e.pdf", content |-> E2EText],
      [id |-> 2, filename |-> "gap.pdf", content |-> GapText],
      [id |-> 3, filename |-> "c.pdf", content |-> GapText],
      [id |-> 4, filename |-> "d.pdf", content |-> GapText],
      [id |-> 5, filename |-> "e.pdf", content |-> E2EText],
      [id |-> 6, filename |-> "f.pdf", content |-> GapText]>>

\* TextAnalyzer.analyze_document of every stored document (it depends on the
\* id and the content alone, so it is computed once)
StoreAnalysis ==
    [k \in 1..Len(StoreDocs) |-> analyze_document(StoreDocs[k].id, StoreDocs[k].content)]

\* the entry of doc_contents for the stored document at place k
DocContent(k, citation_level) ==
    [id |-> StoreDocs[k].id,
     filename |-> StoreDocs[k].filename,
     content |-> StoreDocs[k].content,
     has_analysis |-> citation_level \in {"paragraph", "sentence"},
     analysis |-> StoreAnalysis[k]]

---------------------------------------------------------------------------
(* Matches *)

\* a key that the upstream item does not have (None is a key with value null)
Missing == -98

\* a relevance that is not a number (a JSON string, say)
NotANumber == -97

NoId == <<>>

NoPosition == [start |-> None, end |-> None]

NoCitation == "<no citation>"

\* the characters of the citation texts an upstream item may carry
RawCitationChars(c) ==
    CASE c = "see page 3, para 2" -> <<"s", "e", "e", " ", "p", "a", "g", "e", " ", "3", ",", " ", "p", "a", "r", "a", " ", "2">>
      [] c = "Paragraph 0" -> <<"P", "a", "r", "a", "g", "r", "a", "p", "h", " ", "0">>
      [] c = "p. 9" -> <<"p", ".", " ", "9">>

RawCitations == {"see page 3, para 2", "Paragraph 0", "p. 9"}

\* an item of the upstream array, as json.loads returns it
Item(id, filename, matched_text, paragraph, page, relevance, citation) ==
    [id |-> id, filename |-> filename, matched_text |-> matched_text,
     paragraph |-> paragraph, page |-> page, relevance |-> relevance,
     citation |-> citation,
     paragraph_id |-> NoId, position |-> NoPosition,
     sentence |-> None, sentence_id |-> NoId]

\* item.get(key): None for a key that is missing
Get(v) == IF v = Missing THEN None ELSE v

\* f"{filename}[, Page {page}]": a page that is falsy (None or 0) is left out
CitationHead(filename, page) ==
    IF Get(page) # None /\ page # 0 THEN filename \o ", Page " \o ToString(page) ELSE filename

\* a mutant of CitationPara: the paragraph index is shown as stored
CitationParaZeroBased(head, paragraph_num) == head \o ", Para " \o ToString(paragraph_num)

\* citation += f", Para {paragraph_num + 1}"
CitationPara(head, paragraph_num) == head \o ", Para " \o ToString(paragraph_num + 1)

\* a mutant of CitationSentence: the sentence index is shown as stored
CitationSentenceZeroBased(head, paragraph_num, index) ==
    CitationPara(head, paragraph_num) \o ", Sentence " \o ToString(index)

\* f", Para {paragraph_num + 1}, Sentence {index + 1}"
CitationSentence(head, paragraph_num, index) ==
    CitationPara(head, paragraph_num) \o ", Sentence " \o ToString(index + 1)

---------------------------------------------------------------------------
(* query_processor.py: call_gemini_api, lines 310-342, for one item of a list *)

\* lines 312-321: the paragraph recovered from the citation text or from a
\* leading section number
RecoverParagraph(item) ==
    IF item.paragraph # Missing /\ item.paragraph # None THEN item.paragraph
    ELSE LET cit == IF item.citation = NoCitation THEN <<>>
                    ELSE Lower(RawCitationChars(item.citation))
             from_citation ==
                 IF /\ item.citation # NoCitation
                    /\ Contains(cit, <<"p", "a", "r", "a">>)
                    /\ RegexPara(cit) # None
                 THEN RegexPara(cit) - 1
                 ELSE item.paragraph
         IN  IF RegexSection(item.matched_text) # None /\ from_citation = Missing
             THEN RegexSection(item.matched_text) - 1
             ELSE from_citation

\* lines 323-327: the page recovered from the citation text
RecoverPage(item) ==
    IF item.page # Missing /\ item.page # None THEN item.page
    ELSE LET cit == IF item.citation = NoCitation THEN <<>>
                    ELSE Lower(RawCitationChars(item.citation))
         IN  IF /\ item.citation # NoCitation
                /\ Contains(cit, <<"p", "a", "g", "e">>)
                /\ RegexPage(cit) # None
             THEN RegexPage(cit)
             ELSE item.page

\* lines 329-340: the basic citation
BasicCitation(filename, paragraph, page) ==
    LET name == IF filename = NoFilename THEN "Unknown document" ELSE filename
    IN  IF paragraph # None
        THEN CitationPara(CitationHead(name, page), paragraph)
        ELSE CitationHead(name, page)

ProcessItem(item) ==
    LET paragraph == RecoverParagraph(item)
        page == RecoverPage(item)
    IN  [item EXCEPT !.paragraph = paragraph,
                     !.page = page,
                     !.citation = BasicCitation(item.filename, Get(paragraph), Get(page))]

---------------------------------------------------------------------------
(* query_processor.py: enhance_matches_with_citation_info *)

\* the least element of a non-empty set of places
Least(S) == CHOOSE x \in S : \A y \in S : x <= y

\* lines 198-205: the place of the first paragraph whose content contains
\* the matched text, 0 if there is none
FirstContaining(paragraphs, matched_text) ==
    LET hits == {k \in 1..Len(paragraphs) : Contains(paragraphs[k].content, matched_text)}
    IN  IF hits = {} THEN 0 ELSE Least(hits)

\* a mutant of FirstWithIndex: the paragraph is looked up by content alone
FirstWithIndexSkipped(paragraphs, paragraph_num) == 0

\* lines 187-194: the place of the first paragraph with the given index, 0 if none
FirstWithIndex(paragraphs, paragraph_num) ==
    LET hits == {k \in 1..Len(paragraphs) : paragraphs[k].index = paragraph_num}
    IN  IF paragraph_num = None \/ hits = {} THEN 0 ELSE Least(hits)

\* lines 226-242: the place of the first sentence that equals or contains the
\* matched text, 0 if there is none
FirstExactSentence(sentences, matched_text) ==
    LET hits == {k \in 1..Len(sentences) :
                    \/ matched_text = sentences[k].content
                    \/ Contains(sentences[k].content, matched_text)}
    IN  IF hits = {} THEN 0 ELSE Least(hits)

\* len(matched_words.intersection(sent_words))
Overlap(matched_text, sentence) ==
    Cardinality(WordSet(Lower(matched_text)) \cap WordSet(Lower(sentence.content)))

\* lines 247-256: the place of the sentence with the most words in common;
\* a later sentence wins only with a strictly larger overlap
RECURSIVE BestSentenceFrom(_, _, _, _, _)
BestSentenceFrom(sentences, matched_text, k, best_match, best_score) ==
    IF k > Len(sentences) THEN best_match
    ELSE IF Overlap(matched_text, sentences[k]) > best_score
         THEN BestSentenceFrom(sentences, matched_text, k + 1, k,
                               Overlap(matched_text, sentences[k]))
         ELSE BestSentenceFrom(sentences, matched_text, k + 1, best_match, best_score)

\* a mutant of BestSentence: a later sentence wins with an equal overlap
RECURSIVE BestSentenceLastTieFrom(_, _, _, _, _)
BestSentenceLastTieFrom(sentences, matched_text, k, best_match, best_score) ==
    IF k > Len(sentences) THEN best_match
    ELSE IF Overlap(matched_text, sentences[k]) >= best_score
         THEN BestSentenceLastTieFrom(sentences, matched_text, k + 1, k,
                                      Overlap(matched_text, sentences[k]))
         ELSE BestSentenceLastTieFrom(sentences, matched_text, k + 1, best_match, best_score)

BestSentenceLastTie(sentences, matched_text) ==
    BestSentenceLastTieFrom(sentences, matched_text, 1, 1, 0)

BestSentence(sentences, matched_text) ==
    BestSentenceFrom(sentences, matched_text, 1, 1, 0)

\* lines 220-269: the sentence part, for a match whose paragraph was found
EnhanceSentence(match, analysis, paragraph_num) ==
    LET sentences ==
            FilterPlaces(analysis.sentences,
                         {k \in 1..Len(analysis.sentences) :
                             analysis.sentences[k].paragraph_index = paragraph_num},
                         1)
        exact == FirstExactSentence(sentences, match.matched_text)
        chosen == IF exact # 0 THEN exact ELSE BestSentence(sentences, match.matched_text)
        name == IF match.filename = NoFilename THEN "Unknown" ELSE match.filename
    IN  IF sentences = <<>> THEN match
        ELSE [match EXCEPT
                 !.sentence = sentences[chosen].index,
                 !.sentence_id = sentences[chosen].id,
                 !.citation = CitationSentence(CitationHead(name, match.page),
                                               paragraph_num, sentences[chosen].index)]

\* lines 166-269: one turn of the loop over the matches, for a level that is
\* "paragraph" or "sentence"
EnhanceMatch(match, documents, citation_level) ==
    LET doc_places == {k \in 1..Len(documents) : documents[k].id = match.id}
    IN  IF match.id = None \/ match.id = 0 THEN match
        ELSE IF doc_places = {} \/ ~documents[Least(doc_places)].has_analysis THEN match
        ELSE IF match.matched_text = <<>> THEN match
        ELSE LET analysis == documents[Least(doc_places)].analysis
                 paragraphs == analysis.paragraphs
                 hint == Get(match.paragraph)
                 by_index == FirstWithIndex(paragraphs, hint)
                 by_content == IF by_index # 0 THEN 0
                               ELSE FirstContaining(paragraphs, match.matched_text)
                 found == IF by_index # 0 THEN by_index ELSE by_content
                 paragraph_num == IF by_content # 0 THEN paragraphs[by_content].index
                                  ELSE hint
                 located ==
                     IF found = 0 THEN match
                     ELSE [match EXCEPT
                              !.paragraph = paragraph_num,
                              !.paragraph_id = paragraphs[found].id,
                              !.position = paragraphs[found].position]
                 name == IF match.filename = NoFilename THEN "Unknown" ELSE match.filename
                 cited ==
                     IF paragraph_num = None THEN located
                     ELSE [located EXCEPT
                              !.citation = CitationPara(CitationHead(name, match.page),
                                                        paragraph_num)]
             IN  IF citation_level = "sentence" /\ found # 0
                 THEN EnhanceSentence(cited, analysis, paragraph_num)
                 ELSE cited

enhance_matches_with_citation_info(matches, documents, citation_level) ==
    IF citation_level = "document" THEN matches
    ELSE [k \in 1..Len(matches) |-> EnhanceMatch(matches[k], documents, citation_level)]

---------------------------------------------------------------------------
(* The citation resolver's caller: one upstream item through call_gemini_api
   and enhance_matches_with_citation_info, against the first batch *)

\* query_processor.py: the number of documents in a batch
ChunkSize == 5

\* doc_contents[i:i + chunk_size] for the batch that starts at place i + 1
Chunk(doc_contents, i) == SubSeq(doc_contents, i + 1, Min(i + ChunkSize, Len(doc_contents)))

AllDocContents(citation_level) ==
    [k \in 1..Len(StoreDocs) |-> DocContent(k, citation_level)]

CitationLevels == {"document", "paragraph", "sentence"}

SecondSentence ==
    <<"S", "e", "c", "o", "n", "d", " ", "s", "e", "n", "t", "e", "n", "c", "e", ".">>

TextParaTwo ==
    <<"P", "a", "r", "a", " ", "t", "w", "o", ".">>

TextSecondParagraph ==
    <<"P", "a", "r", "a", " ", "t", "w", "o", ".", " ", "S", "e", "c", "o", "n", "d", " ", "s", "e", "n", "t", "e", "n", "c", "e", ".">>

\* words of the second paragraph of the end-to-end text, in no sentence verbatim
TextWords ==
    <<"s", "e", "c", "o", "n", "d", " ", "p", "a", "r", "a">>

\* a text that starts with a section number
TextSection ==
    <<"2", " ", "o", "n", "e">>

ResolveTexts == {SecondSentence, TextParaTwo, TextSecondParagraph, TextWords, TextSection, <<>>}

ParagraphHints == {Missing, None} \cup 0..MaxParagraphHint

PageHints == {None} \cup 0..MaxPage

ResolveItems ==
    {Item(id, filename, text, paragraph, page, 90, citation) :
        id \in {None, 1, 2, 6},
        filename \in {"e2e.pdf", NoFilename},
        text \in ResolveTexts,
        paragraph \in ParagraphHints,
        page \in PageHints,
        citation \in {NoCitation} \cup RawCitations}

ResolveInit ==
    /\ r_pc = "input"
    /\ r_level \in CitationLevels
    /\ r_shape \in {"list", "matches"}
    /\ r_item \in ResolveItems
    /\ r_in = r_item
    /\ r_out = r_item
    /\ SegIdle
    /\ IdIdle
    /\ ThIdle
    /\ QueryIdle
    /\ ChunkIdle
    /\ MergeIdle
    /\ AcrossIdle

\* the item as call_gemini_api returns it (an item of a list is processed, an
\* item under "matches" is returned as it came), then as the resolver leaves it
resolve_call ==
    /\ r_pc = "input"
    /\ LET match == IF r_shape = "list" THEN ProcessItem(r_item) ELSE r_item
       IN  /\ r_in' = match
           /\ r_out' = enhance_matches_with_citation_info(
                           <<match>>, Chunk(AllDocContents(r_level), 0), r_level)[1]
    /\ r_pc' = "done"
    /\ UNCHANGED <<r_level, r_shape, r_item>>

---------------------------------------------------------------------------
(* query_processor.py: call_gemini_api, the decoding of the response *)

\* the text of a JSON object: {"matches": v}, {"results": v}, or an object
\* with neither key
MatchesText(v) == [t |-> "matches", v |-> v]

ResultsText(v) == [t |-> "results", v |-> v]

OtherObjectText == [t |-> "object", v |-> <<>>]

\* line 308: json.loads succeeds on the text of one JSON value and nothing else
QueryJsonLoadsOk(content) ==
    Len(content) = 1 /\ content[1].t \in {"array", "matches", "results", "object"}

\* call_gemini_api of query_processor.py: whether the call raised (a transport
\* error is raised again, line 353) and the matches it returned
query_call_gemini_api(response) ==
    LET content == StripFence(response)
    IN  IF response = Raised THEN [raised |-> TRUE, matches |-> <<>>]
        ELSE IF ~QueryJsonLoadsOk(content) THEN [raised |-> FALSE, matches |-> <<>>]
        ELSE IF content[1].t = "array"
             THEN [raised |-> FALSE,
                   matches |-> [k \in 1..Len(content[1].v) |-> ProcessItem(content[1].v[k])]]
        ELSE IF content[1].t \in {"matches", "results"}
             THEN [raised |-> FALSE, matches |-> content[1].v]
        ELSE [raised |-> FALSE, matches |-> <<>>]

---------------------------------------------------------------------------
(* query_processor.py: the merge of search_with_gemini and basic_document_search *)

\* x.get("relevance", 0)
Relevance(match) == IF match.relevance = Missing THEN 0 ELSE match.relevance

\* a mutant of InsertByRelevance: the match goes before its equals
InsertBeforeEquals(sorted, match) ==
    LET before == {k \in 1..Len(sorted) : Relevance(sorted[k]) > Relevance(match)}
    IN  SubSeq(sorted, 1, Cardinality(before)) \o <<match>>
            \o SubSeq(sorted, Cardinality(before) + 1, Len(sorted))

\* the place list.sort(key, reverse=True) gives a match among those before
\* it: after every match of greater or equal relevance (the sort is stable)
InsertByRelevance(sorted, match) ==
    LET before == {k \in 1..Len(sorted) : Relevance(sorted[k]) >= Relevance(match)}
    IN  SubSeq(sorted, 1, Cardinality(before)) \o <<match>>
            \o SubSeq(sorted, Cardinality(before) + 1, Len(sorted))

\* matches.sort(key=lambda x: x.get("relevance", 0), reverse=True)
RECURSIVE SortByRelevance(_)
SortByRelevance(matches) ==
    IF matches = <<>> THEN <<>>
    ELSE InsertByRelevance(SortByRelevance(SubSeq(matches, 1, Len(matches) - 1)),
                           matches[Len(matches)])

\* lines 159 and 421: the number of matches returned at most
TopMatches == 10

\* matches[:10]
Top(matches) == SubSeq(matches, 1, Min(TopMatches, Len(matches)))

\* lines 150-156: what one batch adds to the matches; nothing if the call or
\* the comparison of a relevance that is no number raised
ChunkMatches(response, chunk, relevance_threshold, citation_level) ==
    LET called == query_call_gemini_api(response)
        enhanced == enhance_matches_with_citation_info(called.matches, chunk, citation_level)
    IN  IF called.raised THEN <<>>
        ELSE IF \E k \in 1..Len(enhanced) : enhanced[k].relevance = NotANumber THEN <<>>
        ELSE FilterPlaces(enhanced,
                          {k \in 1..Len(enhanced) : Relevance(enhanced[k]) >= relevance_threshold},
                          1)

---------------------------------------------------------------------------
(* query_processor.py: basic_document_search *)

\* s.split(): the words of s in order, at offset p and after
RECURSIVE SplitWords(_, _)
SplitWords(s, p) ==
    LET a == SkipSpace(s, p)
    IN  IF a >= Len(s) THEN <<>>
        ELSE <<Slice(s, a, SkipWord(s, a))>> \o SplitWords(s, SkipWord(s, a))

\* lines 372, 387, 405: what a query term found in the text adds (0.1)
TermWeight == 10

\* lines 373, 388, 406: the least relevance of a match (0.2)
FloorRelevance == 20

\* lines 378, 395, 414: min(relevance, 1.0)
FullRelevance == 100

\* line 377: the length of the text a document-level match shows
PreviewLen == 200

\* a mutant of TermRelevance: a term that is repeated in the query counts once
TermRelevanceDistinct(query_terms, text) ==
    TermWeight * Cardinality({query_terms[k] : k \in {i \in 1..Len(query_terms) :
                                                       Contains(Lower(text), query_terms[i])}})

\* the relevance of a text: 0.1 for every query term it contains
TermRelevance(query_terms, text) ==
    TermWeight * Cardinality({k \in 1..Len(query_terms) : Contains(Lower(text), query_terms[k])})

\* lines 368-380
DocumentMatches(doc, query_terms) ==
    IF TermRelevance(query_terms, doc.content) >= FloorRelevance
    THEN <<Item(doc.id, doc.filename, Slice(doc.content, 0, PreviewLen) \o <<".", ".", ".">>,
                 Missing, Missing,
                 Min(TermRelevance(query_terms, doc.content), FullRelevance),
                 doc.filename)>>
    ELSE <<>>

\* lines 381-398
ParagraphMatches(doc, query_terms) ==
    LET paragraphs == doc.analysis.paragraphs
        hit(k) == TermRelevance(query_terms, paragraphs[k].content) >= FloorRelevance
        made == [k \in 1..Len(paragraphs) |->
                    [Item(doc.id, doc.filename, paragraphs[k].content,
                          paragraphs[k].index, Missing,
                          Min(TermRelevance(query_terms, paragraphs[k].content), FullRelevance),
                          CitationPara(doc.filename, paragraphs[k].index))
                     EXCEPT !.paragraph_id = paragraphs[k].id,
                            !.position = paragraphs[k].position]]
    IN  FilterPlaces(made, {k \in 1..Len(paragraphs) : hit(k)}, 1)

\* lines 399-417
SentenceMatches(doc, query_terms) ==
    LET sentences == doc.analysis.sentences
        hit(k) == TermRelevance(query_terms, sentences[k].content) >= FloorRelevance
        made == [k \in 1..Len(sentences) |->
                    [Item(doc.id, doc.filename, sentences[k].content,
                          sentences[k].paragraph_index, Missing,
                          Min(TermRelevance(query_terms, sentences[k].content), FullRelevance),
                          CitationSentence(doc.filename, sentences[k].paragraph_index,
                                           sentences[k].index))
                     EXCEPT !.sentence = sentences[k].index,
                            !.sentence_id = sentences[k].id,
                            !.position = sentences[k].position]]
    IN  FilterPlaces(made, {k \in 1..Len(sentences) : hit(k)}, 1)

\* lines 363-419: the matches before the sort, document after document; a
\* document whose content cannot be read adds nothing
RECURSIVE BasicMatchesFrom(_, _, _, _, _)
BasicMatchesFrom(documents, unreadable, query_terms, citation_level, k) ==
    IF k > Len(documents) THEN <<>>
    ELSE LET doc == DocContent(documents[k], citation_level)
             found == IF doc.id \in unreadable THEN <<>>
                      ELSE IF citation_level = "document" THEN DocumentMatches(doc, query_terms)
                      ELSE IF citation_level = "paragraph" THEN ParagraphMatches(doc, query_terms)
                      ELSE IF citation_level = "sentence" THEN SentenceMatches(doc, query_terms)
                      ELSE <<>>
         IN  found \o BasicMatchesFrom(documents, unreadable, query_terms, citation_level, k + 1)

BasicMatches(query, documents, unreadable, citation_level) ==
    BasicMatchesFrom(documents, unreadable, SplitWords(Lower(query), 0), citation_level, 1)

basic_document_search(query, documents, unreadable, citation_level) ==
    Top(SortByRelevance(BasicMatches(query, documents, unreadable, citation_level)))

---------------------------------------------------------------------------
(* The caller of process_query *)

\* a query whose terms are letters: a term counts where it is a substring
QueryVowels ==
    <<"a", " ", "o", " ", "e">>

QueryParaTwo ==
    <<"p", "a", "r", "a", " ", "t", "w", "o">>

\* a query of eleven terms, all of them the letter a
QueryEleven ==
    <<"a", " ", "a", " ", "a", " ", "a", " ", "a", " ", "a", " ", "a", " ", "a", " ", "a", " ", "a", " ", "a">>

Queries == {QueryVowels, QueryParaTwo, QueryEleven, <<>>}

\* document_ids: None and [] alike are the empty sequence (both are falsy at
\* lines 16 and 21); 9 is the id of no document
DocumentIds == {<<>>, <<1, 2>>, <<6, 1>>, <<9>>}

\* relevance_threshold, in hundredths
Thresholds == {0, 70}

\* a relevance the generation service may name that is more than 1.0 (1.5)
OverFull == 150

\* upstream items with a page: page 0, and the largest page
PagedItems ==
    {Item(1, "e2e.pdf", SecondSentence, Missing, page, 90, NoCitation) : page \in {0, MaxPage}}

OtherItems ==
    {Item(2, "gap.pdf", TextParaTwo, 2, None, 75, NoCitation),
     Item(2, "gap.pdf", TextParaTwo, Missing, None, 70, "see page 3, para 2"),
     Item(6, "f.pdf", TextParaTwo, Missing, None, 50, NoCitation),
     Item(5, "e.pdf", TextWords, Missing, None, Missing, "p. 9"),
     Item(None, NoFilename, TextSection, Missing, None, 75, NoCitation),
     Item(3, "c.pdf", <<>>, None, None, NotANumber, "Paragraph 0"),
     Item(1, "e2e.pdf", TextParaTwo, Missing, None, OverFull, NoCitation)}

\* the candidates scored 0.9, 0.75 and 0.5
ScoredItems ==
    <<Item(1, "e2e.pdf", SecondSentence, Missing, None, 90, NoCitation),
      Item(2, "gap.pdf", TextParaTwo, Missing, None, 75, NoCitation),
      Item(3, "c.pdf", TextParaTwo, Missing, None, 50, NoCitation)>>

\* more candidates than one answer of two batches may keep, some of equal relevance
ManyItems ==
    <<Item(1, "e2e.pdf", SecondSentence, Missing, None, 75, NoCitation),
      Item(2, "gap.pdf", TextParaTwo, Missing, None, 90, NoCitation),
      Item(3, "c.pdf", TextParaTwo, Missing, None, 75, NoCitation),
      Item(4, "d.pdf", TextParaTwo, 0, None, 50, NoCitation),
      Item(5, "e.pdf", TextParaTwo, Missing, 1, 90, NoCitation),
      Item(6, "f.pdf", TextParaTwo, Missing, None, 75, NoCitation)>>

\* what the generation service may answer to the prompt of a batch
Responses ==
    {<<ArrayText(<<item>>)>> : item \in PagedItems \cup OtherItems}
        \cup {<<MatchesText(<<item>>)>> : item \in PagedItems}
        \cup {Raised,
              <<Prose>>,
              <<Prose, ArrayText(ScoredItems)>>,
              <<FenceJson, ArrayText(ScoredItems), Fence>>,
              <<Fence, ArrayText(ScoredItems), Fence>>,
              <<ArrayText(ScoredItems)>>,
              <<ResultsText(ScoredItems)>>,
              <<OtherObjectText>>,
              <<ArrayText(<<>>)>>,
              <<ArrayText(ManyItems)>>}

\* a direct call of process_query has its arguments; a request to the
\* endpoint has not called process_query yet
QueryInit ==
    /\ q_request \in [via : {"process_query", "endpoint"},
                      document_ids : DocumentIds,
                      citation_level : CitationLevels]
    /\ q_pc = IF q_request.via = "endpoint" THEN "request" ELSE "start"
    /\ q_query \in Queries
    /\ q_ids = IF q_request.via = "endpoint" THEN <<>> ELSE q_request.document_ids
    /\ q_threshold \in Thresholds
    /\ q_level = IF q_request.via = "endpoint" THEN "document" ELSE q_request.citation_level
    /\ q_key \in BOOLEAN
    /\ q_unreadable \in {{}, {1}}
    /\ q_docs = <<>>
    /\ q_i = 0
    /\ q_matches = <<>>
    /\ q_responses = <<>>
    /\ q_result = <<>>
    /\ SegIdle
    /\ IdIdle
    /\ ThIdle
    /\ ResolveIdle
    /\ ChunkIdle
    /\ MergeIdle
    /\ AcrossIdle

\* lines 21-27: the places in the store of the documents searched, all of
\* them if no ids are given
Documents(document_ids) ==
    LET all == [k \in 1..Len(StoreDocs) |-> k]
    IN  IF document_ids = <<>> THEN all
        ELSE FilterPlaces(all,
                          {k \in 1..Len(StoreDocs) :
                              \E j \in 1..Len(document_ids) : document_ids[j] = StoreDocs[k].id},
                          1)

\* a mutant of Readable: a content file that cannot be read ends the search
ReadableOrNone(documents, unreadable) ==
    IF \E k \in 1..Len(documents) : StoreDocs[documents[k]].id \in unreadable
    THEN <<>> ELSE documents

\* lines 47-64: the documents whose content could be read
Readable(documents, unreadable) ==
    FilterPlaces(documents,
                 {k \in 1..Len(documents) : StoreDocs[documents[k]].id \notin unreadable},
                 1)

\* query.py, lines 41-63: the ids of the requested documents that exist, the
\* argument document_ids of process_query (None, here <<>>, if there is none)
SelectedIds(document_ids) ==
    [k \in 1..Len(Documents(document_ids)) |-> StoreDocs[Documents(document_ids)[k]].id]

EndpointDocumentIds(document_ids) ==
    IF document_ids = <<>> THEN <<>> ELSE SelectedIds(document_ids)

\* query.py, lines 41-63: the endpoint calls process_query with the query,
\* the selected ids, the threshold and the mode; citation_level is not passed
\* and takes the default of process_query (line 14)
query_documents_call ==
    /\ q_pc = "request"
    /\ q_ids' = EndpointDocumentIds(q_request.document_ids)
    /\ q_level' = "paragraph"
    /\ q_pc' = "start"
    /\ UNCHANGED <<q_request, q_query, q_threshold, q_key, q_unreadable, q_docs, q_i,
                   q_matches, q_responses, q_result>>

\* process_query up to the first generation call, or to its return if no
\* call is made: no documents, no readable content, or the keyword search
process_query_call ==
    /\ q_pc = "start"
    /\ LET documents == Documents(q_ids)
           matches == IF documents = <<>> \/ q_key THEN <<>>
                      ELSE BasicMatches(q_query, documents, q_unreadable, q_level)
           doc_contents == IF documents # <<>> /\ q_key
                           THEN Readable(documents, q_unreadable) ELSE <<>>
       IN  /\ q_docs' = doc_contents
           /\ q_matches' = matches
           /\ q_result' = IF documents = <<>> \/ q_key THEN <<>>
                          ELSE basic_document_search(q_query, documents, q_unreadable, q_level)
           /\ q_pc' = IF doc_contents = <<>> THEN "done" ELSE "batch"
    /\ UNCHANGED <<q_request, q_query, q_ids, q_threshold, q_level, q_key, q_unreadable,
                   q_i, q_responses>>

\* lines 137-144: the batch at offset i, with the content and the analysis of
\* its documents
ChunkContents(doc_contents, i, citation_level) ==
    [k \in 1..Len(Chunk(doc_contents, i)) |->
        DocContent(Chunk(doc_contents, i)[k], citation_level)]

\* a mutant of TryChunk: without the except clause of lines 155-156
TryChunkNoExcept(response, chunk, relevance_threshold, citation_level) ==
    [raised |-> \/ query_call_gemini_api(response).raised
                \/ \E k \in 1..Len(query_call_gemini_api(response).matches) :
                       query_call_gemini_api(response).matches[k].relevance = NotANumber,
     matches |-> ChunkMatches(response, chunk, relevance_threshold, citation_level)]

\* lines 148-156: the try statement around a batch: what the batch adds, and
\* whether an exception leaves search_with_gemini (none does)
TryChunk(response, chunk, relevance_threshold, citation_level) ==
    [raised |-> FALSE,
     matches |-> ChunkMatches(response, chunk, relevance_threshold, citation_level)]

\* lines 136-159: one batch of search_with_gemini, with what the generation
\* service answers; after the last batch the matches are sorted and returned
search_chunk ==
    /\ q_pc = "batch"
    /\ \E response \in Responses :
        \E tried \in {TryChunk(response, ChunkContents(q_docs, q_i, q_level),
                               q_threshold, q_level)} :
            /\ q_matches' = q_matches \o tried.matches
            /\ q_responses' = Append(q_responses, response)
            /\ q_i' = q_i + ChunkSize
            /\ IF tried.raised
               THEN /\ q_result' = q_result
                    /\ q_pc' = "raised"
               ELSE IF q_i + ChunkSize >= Len(q_docs)
               THEN /\ q_result' = Top(SortByRelevance(q_matches \o tried.matches))
                    /\ q_pc' = "done"
               ELSE /\ q_result' = q_result
                    /\ q_pc' = "batch"
    /\ UNCHANGED <<q_request, q_query, q_ids, q_threshold, q_level, q_key, q_unreadable,
                   q_docs>>

QueryNext ==
    \/ query_documents_call /\ UNCHANGED <<seg_vars, id_vars, th_vars, r_vars, c_vars, m_vars, x_vars>>
    \/ process_query_call /\ UNCHANGED <<seg_vars, id_vars, th_vars, r_vars, c_vars, m_vars, x_vars>>
    \/ search_chunk /\ UNCHANGED <<seg_vars, id_vars, th_vars, r_vars, c_vars, m_vars, x_vars>>

SpecQuery == QueryInit /\ [][QueryNext]_vars

---------------------------------------------------------------------------
(* Chunked reading of a document: document_service.py *)

ChunkDocId == 1

\* lines 66-78, with the is_last_chunk of a chunk that is never the last
get_document_chunk_never_last(doc, content_file, chunk_index, chunk_size) ==
    LET content == IF doc = "no_file" THEN <<>> ELSE content_file
        start_pos == chunk_index * chunk_size
        end_pos == Min(start_pos + chunk_size, Len(content))
    IN  IF doc = "no_row" \/ start_pos >= Len(content) THEN NoChunk
        ELSE [document_id |-> ChunkDocId, chunk_index |-> chunk_index,
              chunk_size |-> chunk_size, content |-> Slice(content, start_pos, end_pos),
              is_last_chunk |-> end_pos > Len(content)]

\* DocumentService.get_document_chunk: None without the document's row (lines
\* 56-58); the content is empty without the content file (lines 60-63)
get_document_chunk(doc, content_file, chunk_index, chunk_size) ==
    LET content == IF doc = "no_file" THEN <<>> ELSE content_file
        start_pos == chunk_index * chunk_size
        end_pos == Min(start_pos + chunk_size, Len(content))
    IN  IF doc = "no_row" THEN NoChunk
        ELSE IF start_pos >= Len(content) THEN NoChunk
        ELSE [document_id |-> ChunkDocId, chunk_index |-> chunk_index,
              chunk_size |-> chunk_size, content |-> Slice(content, start_pos, end_pos),
              is_last_chunk |-> end_pos >= Len(content)]

RECURSIVE ContentsUpTo(_)
ContentsUpTo(n) ==
    IF n = 0 THEN {<<>>}
    ELSE LET shorter == ContentsUpTo(n - 1)
         IN  shorter \cup {Append(c, ch) : c \in {s \in shorter : Len(s) = n - 1},
                                            ch \in {"a", "b"}}

ChunkInit ==
    /\ c_pc = "reading"
    /\ c_doc \in {"stored", "no_file", "no_row"}
    /\ c_content \in ContentsUpTo(MaxContentLen)
    /\ c_size \in 1..MaxChunkSize
    /\ c_index = 0
    /\ c_out = NoChunk
    /\ c_read = <<>>
    /\ SegIdle
    /\ IdIdle
    /\ ThIdle
    /\ ResolveIdle
    /\ QueryIdle
    /\ MergeIdle
    /\ AcrossIdle

\* a reader asks for chunk 0, 1, ... and joins what it gets; it goes on
\* after the last chunk and after a None, up to MaxChunkIndex
get_document_chunk_call ==
    /\ c_pc = "reading"
    /\ \E chunk \in {get_document_chunk(c_doc, c_content, c_index, c_size)} :
        /\ c_out' = chunk
        /\ c_read' = c_read \o chunk.content
    /\ c_index' = c_index + 1
    /\ c_pc' = IF c_index = MaxChunkIndex THEN "end" ELSE "reading"
    /\ UNCHANGED <<c_doc, c_content, c_size>>

ChunkNext ==
    get_document_chunk_call
        /\ UNCHANGED <<seg_vars, id_vars, th_vars, r_vars, q_vars, m_vars, x_vars>>

SpecChunk == ChunkInit /\ [][ChunkNext]_vars

---------------------------------------------------------------------------
(* theme_identification.py: are_themes_similar and merge_similar_themes *)

\* line 247: the default of similarity_threshold (0.8)
DefaultSimilarity == 80

\* lines 271-278.  The return statement is
\*     return intersection / union if union > 0 else 0 >= threshold
\* and a conditional expression binds weaker than >=: with a union that is
\* not empty the value is the ratio itself, which an if statement takes as
\* true unless it is 0.0; with an empty union it is the bool 0 >= threshold.
are_themes_similar(theme1, theme2, threshold) ==
    LET words1 == WordSet(Lower(theme1))
        words2 == WordSet(Lower(theme2))
        intersection == Cardinality(words1 \cap words2)
        union == Cardinality(words1 \cup words2)
    IN  IF union > 0
        THEN [theme1 |-> theme1, theme2 |-> theme2, is_ratio |-> TRUE,
              num |-> intersection, den |-> union, truth |-> intersection # 0]
        ELSE [theme1 |-> theme1, theme2 |-> theme2, is_ratio |-> FALSE,
              num |-> 0, den |-> 1, truth |-> 0 >= threshold]

\* a mutant of Absorb: the relevance of the seed is kept
AbsorbKeepRelevance(current_theme, theme2) ==
    [current_theme EXCEPT !.evidence = current_theme.evidence \o "\n" \o theme2.evidence]

\* lines 263-264: the theme takes the larger relevance and the evidence of
\* theme2 on a new line
Absorb(current_theme, theme2) ==
    [current_theme EXCEPT
        !.relevance = Max(current_theme.relevance, theme2.relevance),
        !.evidence = current_theme.evidence \o "\n" \o theme2.evidence]

\* lines 258-265: the inner loop, from place j on, for the seed at place i
RECURSIVE MergeInner(_, _, _, _, _, _)
MergeInner(themes, i, j, current_theme, used, threshold) ==
    IF j > Len(themes) THEN [theme |-> current_theme, used |-> used]
    ELSE IF j \in used THEN MergeInner(themes, i, j + 1, current_theme, used, threshold)
    ELSE IF are_themes_similar(themes[i].name, themes[j].name, threshold).truth
         THEN MergeInner(themes, i, j + 1, Absorb(current_theme, themes[j]),
                         used \cup {j}, threshold)
         ELSE MergeInner(themes, i, j + 1, current_theme, used, threshold)

\* lines 251-267: the outer loop, from place i on
RECURSIVE MergeOuter(_, _, _, _)
MergeOuter(themes, i, used, threshold) ==
    IF i > Len(themes) THEN <<>>
    ELSE IF i \in used THEN MergeOuter(themes, i + 1, used, threshold)
    ELSE LET inner == MergeInner(themes, i, i + 1, themes[i], used \cup {i}, threshold)
         IN  <<inner.theme>> \o MergeOuter(themes, i + 1, inner.used, threshold)

merge_similar_themes(themes, similarity_threshold) ==
    MergeOuter(themes, 1, {}, similarity_threshold)

\* theme names: two with the same words in another case, one that shares
\* one word of two with them, and an empty name
NameUpper == <<"P", " ", "s">>

NameLower == <<"p", " ", "S">>

NameOther == <<"p", " ", "t">>

MergeNames == {NameUpper, NameLower, NameOther, <<>>}

\* the themes that may stand at place k of the input; the evidence tells the place
MergeThemesAt(k) ==
    {[name |-> n, description |-> "d", relevance |-> r, evidence |-> "e" \o ToString(k)] :
        n \in MergeNames, r \in {50, 90}}

RECURSIVE ThemeListsUpTo(_)
ThemeListsUpTo(n) ==
    IF n = 0 THEN {<<>>}
    ELSE LET shorter == ThemeListsUpTo(n - 1)
         IN  shorter \cup {Append(s, t) : s \in {l \in shorter : Len(l) = n - 1},
                                            t \in MergeThemesAt(n)}

MergeInit ==
    /\ m_pc = "input"
    /\ m_themes \in ThemeListsUpTo(MaxMergeThemes)
    /\ m_t \in {0, DefaultSimilarity}
    /\ m_similar = NoSimilarity
    /\ m_merged = <<>>
    /\ SegIdle
    /\ IdIdle
    /\ ThIdle
    /\ ResolveIdle
    /\ QueryIdle
    /\ ChunkIdle
    /\ AcrossIdle

\* the names of two of the themes are compared
are_themes_similar_call ==
    /\ m_pc = "input"
    /\ \E i, j \in 1..Len(m_themes) :
        m_similar' = are_themes_similar(m_themes[i].name, m_themes[j].name, m_t)
    /\ m_pc' = "compared"
    /\ UNCHANGED <<m_themes, m_t, m_merged>>

\* the themes are merged with the default threshold, as line 188 does
merge_similar_themes_call ==
    /\ m_pc = "input"
    /\ m_merged' = merge_similar_themes(m_themes, DefaultSimilarity)
    /\ m_pc' = "merged"
    /\ UNCHANGED <<m_themes, m_t, m_similar>>

MergeNext ==
    \/ are_themes_similar_call
            /\ UNCHANGED <<seg_vars, id_vars, th_vars, r_vars, q_vars, c_vars, x_vars>>
    \/ merge_similar_themes_call
            /\ UNCHANGED <<seg_vars, id_vars, th_vars, r_vars, q_vars, c_vars, x_vars>>

SpecMerge == MergeInit /\ [][MergeNext]_vars

---------------------------------------------------------------------------
(* theme_identification.py: identify_themes_across_documents *)

\* config.py: settings.MAX_DOCUMENTS_PER_BATCH
MaxDocumentsPerBatch == 5

\* line 156: the default of max_themes
DefaultMaxThemes == 5

\* line 158: the default of relevance_threshold (0.7)
DefaultThemeRelevance == 70

\* line 229: the relevance of a theme block of fewer than three lines (0.5)
BlockRelevance == 50

\* A block of the response text of identify_themes_in_text, cut at blank
\* lines: whether it holds "Theme:", and its name, relevance and evidence
\* lines (a relevance line may be missing, or hold no number)
Block(theme, name, relevance, evidence) ==
    [theme |-> theme, name |-> name, relevance |-> relevance, evidence |-> evidence]

\* what the generation service does for one section: it raises, or answers
\* with a text of blocks
Answer(blocks) == [raised |-> FALSE, blocks |-> blocks]

AnswerRaised == [raised |-> TRUE, blocks |-> <<>>]

IsThemeBlock(block) == block.theme

\* lines 222-241: the themes of a text, from the answer to its prompt
RECURSIVE ThemesOfBlocks(_, _)
ThemesOfBlocks(blocks, relevance_threshold) ==
    IF blocks = <<>> THEN <<>>
    ELSE LET block == Head(blocks)
             relevance == IF block.relevance = Missing THEN BlockRelevance
                          ELSE block.relevance
         IN  (IF block.theme /\ relevance >= relevance_threshold
              THEN <<[name |-> block.name, description |-> "d",
                      relevance |-> relevance, evidence |-> block.evidence]>>
              ELSE <<>>) \o ThemesOfBlocks(Tail(blocks), relevance_threshold)

\* identify_themes_in_text, lines 206-245: an exception of the generation
\* call, or of float() on a relevance line that holds no number, is caught
\* and the result is []
identify_themes_in_text(answer, relevance_threshold) ==
    IF answer.raised THEN <<>>
    ELSE IF \E k \in 1..Len(answer.blocks) :
                answer.blocks[k].theme /\ answer.blocks[k].relevance = NotANumber
         THEN <<>>
         ELSE ThemesOfBlocks(answer.blocks, relevance_threshold)

\* the body of process_document, lines 163-174: the themes of the key
\* sections of the document, one after the other; a document is given by
\* the answers to the prompts of its key sections
RECURSIVE ProcessDocumentBody(_, _)
ProcessDocumentBody(doc, relevance_threshold) ==
    IF doc = <<>> THEN <<>>
    ELSE identify_themes_in_text(Head(doc), relevance_threshold)
             \o ProcessDocumentBody(Tail(doc), relevance_threshold)

\* what a task of the pool returns: a list of themes, or a coroutine object
\* that was never run
NoTaskResult == [coroutine |-> FALSE, themes |-> <<>>]

\* lines 162, 178-179: process_document is declared with async def and the
\* pool calls it as a plain function: the call runs nothing of the body and
\* returns a coroutine object, which is the result of the task
process_document(doc, relevance_threshold) == [coroutine |-> TRUE, themes |-> <<>>]

\* the number of generation calls the call of process_document makes
ProcessDocumentCalls(doc) == 0

\* line 159
MaxWorkers(documents) == Min(MaxDocumentsPerBatch, Len(documents))

\* lines 184-186: all_themes.extend(doc_themes) raises TypeError for a
\* result that is no list
ExtendRaises(results) == \E k \in 1..Len(results) : results[k].coroutine

RECURSIVE AllThemes(_)
AllThemes(results) ==
    IF results = <<>> THEN <<>> ELSE Head(results).themes \o AllThemes(Tail(results))

\* lines 188-189
MergedTop(all_themes, max_themes) ==
    LET sorted == SortByRelevance(merge_similar_themes(all_themes, DefaultSimilarity))
    IN  SubSeq(sorted, 1, Min(max_themes, Len(sorted)))

\* documents: one of two key sections that are answered, one whose first key
\* section makes the generation call raise
DocAnswered ==
    <<Answer(<<Block(TRUE, NameUpper, 90, "e1"), Block(FALSE, <<>>, Missing, ""),
               Block(TRUE, NameOther, 80, "e2")>>),
      Answer(<<Block(TRUE, NameLower, 60, "e3"), Block(TRUE, <<>>, NotANumber, "e4")>>)>>

DocRaising ==
    <<AnswerRaised, Answer(<<Block(TRUE, NameOther, 75, "e5")>>)>>

RECURSIVE DocListsUpTo(_)
DocListsUpTo(n) ==
    IF n = 0 THEN {<<>>}
    ELSE LET shorter == DocListsUpTo(n - 1)
         IN  shorter \cup {Append(s, d) : s \in {l \in shorter : Len(l) = n - 1},
                                            d \in {DocAnswered, DocRaising}}

AcrossInit ==
    /\ x_pc = "start"
    /\ x_docs \in DocListsUpTo(MaxAcrossDocs)
    /\ x_max_themes \in {1, DefaultMaxThemes}
    /\ x_workers = 0
    /\ x_tasks = <<>>
    /\ x_results = <<>>
    /\ x_calls = 0
    /\ x_result = <<>>
    /\ SegIdle
    /\ IdIdle
    /\ ThIdle
    /\ ResolveIdle
    /\ QueryIdle
    /\ ChunkIdle
    /\ MergeIdle

\* lines 159-181: the pool is made, which raises ValueError for max_workers
\* = 0, and one task a document is handed to it
across_submit ==
    /\ x_pc = "start"
    /\ x_workers' = MaxWorkers(x_docs)
    /\ x_pc' = IF MaxWorkers(x_docs) <= 0 THEN "raised" ELSE "running"
    /\ x_tasks' = IF MaxWorkers(x_docs) <= 0 THEN <<>>
                  ELSE [k \in 1..Len(x_docs) |-> "queued"]
    /\ x_results' = IF MaxWorkers(x_docs) <= 0 THEN <<>>
                    ELSE [k \in 1..Len(x_docs) |-> NoTaskResult]
    /\ UNCHANGED <<x_docs, x_max_themes, x_calls, x_result>>

\* a worker of the pool that is free takes the first task of the queue
task_begin ==
    /\ x_pc = "running"
    /\ Cardinality({k \in 1..Len(x_tasks) : x_tasks[k] = "running"}) < x_workers
    /\ \E k \in 1..Len(x_tasks) :
        /\ x_tasks[k] = "queued"
        /\ \A j \in 1..(k - 1) : x_tasks[j] # "queued"
        /\ x_tasks' = [x_tasks EXCEPT ![k] = "running"]
    /\ UNCHANGED <<x_pc, x_docs, x_max_themes, x_workers, x_results, x_calls, x_result>>

\* a worker ends its task: it has called process_document
task_end ==
    /\ x_pc = "running"
    /\ \E k \in 1..Len(x_tasks) :
        /\ x_tasks[k] = "running"
        /\ x_tasks' = [x_tasks EXCEPT ![k] = "done"]
        /\ x_results' = [x_results EXCEPT
                             ![k] = process_document(x_docs[k], DefaultThemeRelevance)]
        /\ x_calls' = x_calls + ProcessDocumentCalls(x_docs[k])
    /\ UNCHANGED <<x_pc, x_docs, x_max_themes, x_workers, x_result>>

\* line 182: gather returns when every task has ended
across_gather ==
    /\ x_pc = "running"
    /\ \A k \in 1..Len(x_tasks) : x_tasks[k] = "done"
    /\ x_pc' = "gathered"
    /\ UNCHANGED <<x_docs, x_max_themes, x_workers, x_tasks, x_results, x_calls, x_result>>

\* lines 184-189: the results are joined, merged, sorted and cut
across_merge ==
    /\ x_pc = "gathered"
    /\ x_pc' = IF ExtendRaises(x_results) THEN "raised" ELSE "done"
    /\ x_result' = IF ExtendRaises(x_results) THEN <<>>
                   ELSE MergedTop(AllThemes(x_results), x_max_themes)
    /\ UNCHANGED <<x_docs, x_max_themes, x_workers, x_tasks, x_results, x_calls>>

AcrossNext ==
    \/ across_submit
            /\ UNCHANGED <<seg_vars, id_vars, th_vars, r_vars, q_vars, c_vars, m_vars>>
    \/ task_begin
            /\ UNCHANGED <<seg_vars, id_vars, th_vars, r_vars, q_vars, c_vars, m_vars>>
    \/ task_end
            /\ UNCHANGED <<seg_vars, id_vars, th_vars, r_vars, q_vars, c_vars, m_vars>>
    \/ across_gather
            /\ UNCHANGED <<seg_vars, id_vars, th_vars, r_vars, q_vars, c_vars, m_vars>>
    \/ across_merge
            /\ UNCHANGED <<seg_vars, id_vars, th_vars, r_vars, q_vars, c_vars, m_vars>>

SpecAcross == AcrossInit /\ [][AcrossNext]_vars

---------------------------------------------------------------------------
(* The caller of identify_themes *)

ThemeMatchKinds ==
    {[id |-> 1, filename |-> "DOC001"], [id |-> 2, filename |-> "DOC002"],
     [id |-> 3, filename |-> NoFilename]}

ThemeDocRefs == {<<>>, <<"DOC001">>, <<"DOC999">>, <<"DOC999", "DOC001">>, <<"Doc 3">>}

UpstreamThemes ==
    {[theme_name |-> n, summary |-> "Summary", supporting_documents |-> d,
      evidence |-> "Evidence"] : n \in {"Theme A", "Theme B"}, d \in ThemeDocRefs}

\* what the generation service may do: raise, or answer with a bare array,
\* a fenced array, an array inside prose, prose alone, or two arrays
ThemeOutcomes ==
    {Raised, <<Prose>>, <<>>}
    \cup {<<ArrayText(a)>> : a \in SeqsUpTo(UpstreamThemes, MaxThemes)}
    \cup {<<FenceJson, ArrayText(<<a>>), Fence>> : a \in UpstreamThemes}
    \cup {<<Fence, ArrayText(<<a>>)>> : a \in UpstreamThemes}
    \cup {<<Prose, ArrayText(<<a>>), Prose>> : a \in UpstreamThemes}
    \cup {<<ArrayText(<<a>>), Prose, ArrayText(<<a>>)>> : a \in UpstreamThemes}

ThInit ==
    /\ th_pc = "input"
    /\ th_matches \in SeqsUpTo(ThemeMatchKinds, MaxThemeMatches)
    /\ th_key \in BOOLEAN
    /\ th_calls = 0
    /\ th_result = <<>>
    /\ th_response = <<>>
    /\ SegIdle
    /\ IdIdle
    /\ ResolveIdle
    /\ QueryIdle
    /\ ChunkIdle
    /\ MergeIdle
    /\ AcrossIdle

\* identify_themes, with what the generation service does if it is called
\* (th_response keeps it only if the call was made)
identify_themes_call ==
    /\ th_pc = "input"
    /\ \E outcome \in ThemeOutcomes :
        \E r \in {identify_themes(th_matches, th_key, outcome)} :
            /\ th_result' = r.result
            /\ th_calls' = th_calls + r.calls
            /\ th_response' = IF r.calls = 0 THEN <<>> ELSE outcome
            /\ th_pc' = IF r.raised THEN "raised" ELSE "done"
    /\ UNCHANGED <<th_matches, th_key>>

---------------------------------------------------------------------------
(* The caller of generate_text_id: two calls, on two texts *)

\* the body of a text: n characters, a space at every seventh place
IdBody(n) == [i \in 1..n |-> IF i % 7 = 0 THEN " " ELSE "a"]

IdTails == UNION {[1..n -> {"a", " "}] : n \in 0..MaxTailLen}

\* white space, a short or a long body (one character short of the sample
\* length), and a tail that starts inside the sample and ends outside it
IdTexts ==
    {lead \o IdBody(n) \o tail :
        lead \in {<<>>, <<" ">>}, n \in {2, IdSampleLen - 1}, tail \in IdTails}

IdInit ==
    /\ id_pc = "input"
    /\ id_text1 \in IdTexts
    /\ id_text2 \in IdTexts
    /\ id_out1 = <<>>
    /\ id_out2 = <<>>
    /\ SegIdle
    /\ ThIdle
    /\ ResolveIdle
    /\ QueryIdle
    /\ ChunkIdle
    /\ MergeIdle
    /\ AcrossIdle

generate_text_id_call ==
    \/ /\ id_pc = "input"
       /\ id_out1' = generate_text_id(id_text1)
       /\ id_pc' = "first"
       /\ UNCHANGED <<id_text1, id_text2, id_out2>>
    \/ /\ id_pc = "first"
       /\ id_out2' = generate_text_id(id_text2)
       /\ id_pc' = "done"
       /\ UNCHANGED <<id_text1, id_text2, id_out1>>

---------------------------------------------------------------------------
(* The segmenter's caller: analyze_document on every text of the bound *)

SegAlphabet == {"a", ".", " ", "\n", "\r"}

Texts == UNION {[1..n -> SegAlphabet] : n \in 0..MaxTextLen}

\* the document id of the segmenter's caller
SegDocId == 42

\* what may go wrong in a call: nothing, sent_tokenize raises (its data is
\* not installed, say), or the text is None
SegFaults == {"none", "tokenizer", "no_text"}

SegInit ==
    /\ seg_pc = "input"
    /\ seg_fault \in SegFaults
    /\ seg_text \in IF seg_fault = "no_text" THEN {<<>>} ELSE Texts
    /\ seg_result = NoAnalysis
    /\ IdIdle
    /\ ThIdle
    /\ ResolveIdle
    /\ QueryIdle
    /\ ChunkIdle
    /\ MergeIdle
    /\ AcrossIdle

\* lines 75-83: whether the try block raises: text.replace on None does, and
\* sent_tokenize does when it fails and there is a paragraph to split
AnalyzeRaises(text, fault) ==
    \/ fault = "no_text"
    \/ fault = "tokenizer" /\ split_into_paragraphs(text) # <<>>

\* a mutant of try_analyze_document: without the except clause of lines 93-100
try_analyze_document_no_except(document_id, text, fault) ==
    IF AnalyzeRaises(text, fault)
    THEN [raised |-> TRUE, analysis |-> NoAnalysis]
    ELSE [raised |-> FALSE, analysis |-> analyze_document(document_id, text)]

\* lines 73-100: analyze_document with its try statement: the analysis, or
\* the error object of lines 95-100 (the error text is the fault's name)
try_analyze_document(document_id, text, fault) ==
    IF AnalyzeRaises(text, fault)
    THEN [raised |-> FALSE,
          analysis |-> [document_id |-> document_id, error |-> fault,
                        paragraphs |-> <<>>, sentences |-> <<>>]]
    ELSE [raised |-> FALSE, analysis |-> analyze_document(document_id, text)]

analyze_document_call ==
    /\ seg_pc = "input"
    /\ \E tried \in {try_analyze_document(SegDocId, seg_text, seg_fault)} :
           /\ seg_result' = tried.analysis
           /\ seg_pc' = IF tried.raised THEN "raised" ELSE "done"
    /\ UNCHANGED <<seg_text, seg_fault>>

SegNext == analyze_document_call /\ UNCHANGED <<id_vars, th_vars, r_vars, q_vars, c_vars, m_vars, x_vars>>

SpecSeg == SegInit /\ [][SegNext]_vars

---------------------------------------------------------------------------
(* Claims about the segmenter *)

SegParagraphs == seg_result.paragraphs

SegSentences == seg_result.sentences

\* C6: every paragraph's span is the slice of the normalised text that equals
\* its content, lies inside the text, and does not overlap the next
\* paragraph's span, also for repeated paragraph texts and skipped blocks.
C6_ParagraphSpans ==
    seg_pc = "done" =>
        LET norm == NormalizeNewlines(seg_text)
        IN  \A k \in 1..Len(SegParagraphs) :
                LET P == SegParagraphs[k]
                IN  /\ 0 <= P.position.start
                    /\ P.position.start <= P.position.end
                    /\ P.position.end <= Len(norm)
                    /\ P.position.end <= Len(seg_text)
                    /\ P.position.end - P.position.start = Len(P.content)
                    /\ Slice(norm, P.position.start, P.position.end) = P.content
                    /\ k < Len(SegParagraphs) =>
                           P.position.end <= SegParagraphs[k + 1].position.start

\* C6 witness: a text with a skipped empty block between two paragraphs of
\* the same content has been segmented.
C6_Witness ==
    /\ seg_pc = "done"
    /\ Len(SegParagraphs) = 2
    /\ SegParagraphs[1].content = SegParagraphs[2].content
    /\ SegParagraphs[2].index = 2

\* C7 (as claimed): the k-th returned paragraph has index k (0-based), for
\* every text.
C7_IndicesContiguous ==
    seg_pc = "done" =>
        \A k \in 1..Len(SegParagraphs) : SegParagraphs[k].index = k - 1

\* C8: every sentence lies inside the paragraph it names, at the paragraph's
\* start plus the offset of its content in the paragraph's content; the
\* sentences of a paragraph do not overlap and come in offset order.
C8_SentenceSpans ==
    seg_pc = "done" =>
        /\ \A j \in 1..Len(SegSentences) :
               LET S == SegSentences[j]
               IN  /\ S.position.end - S.position.start = Len(S.content)
                   /\ \E k \in 1..Len(SegParagraphs) :
                          LET P == SegParagraphs[k]
                          IN  /\ P.index = S.paragraph_index
                              /\ P.position.start <= S.position.start
                              /\ S.position.start <= S.position.end
                              /\ S.position.end <= P.position.start + Len(P.content)
                              /\ Slice(P.content,
                                       S.position.start - P.position.start,
                                       S.position.end - P.position.start) = S.content
        /\ \A i, j \in 1..Len(SegSentences) :
               (i < j /\ SegSentences[i].paragraph_index = SegSentences[j].paragraph_index)
                   => /\ SegSentences[i].index < SegSentences[j].index
                      /\ SegSentences[i].position.end <= SegSentences[j].position.start

\* C8 witness: a paragraph that does not start the text has two sentences.
C8_Witness ==
    /\ seg_pc = "done"
    /\ \E j \in 1..Len(SegSentences), k \in 1..Len(SegParagraphs) :
           /\ SegSentences[j].index = 1
           /\ SegSentences[j].paragraph_index = SegParagraphs[k].index
           /\ SegParagraphs[k].position.start > 0

---------------------------------------------------------------------------
(* Claims about generate_text_id *)

IdNext == generate_text_id_call /\ UNCHANGED <<seg_vars, th_vars, r_vars, q_vars, c_vars, m_vars, x_vars>>

SpecId == IdInit /\ [][IdNext]_vars

IsHex(c) == \E k \in 1..Len(HexDigits) : HexDigits[k] = c

\* C9: an id is 12 hexadecimal digits, and two texts that agree on their
\* first 100 characters after trimming get the same id.
C9_TextId ==
    id_pc = "done" =>
        /\ Len(id_out1) = 12
        /\ Len(id_out2) = 12
        /\ \A k \in 1..Len(id_out1) : IsHex(id_out1[k])
        /\ \A k \in 1..Len(id_out2) : IsHex(id_out2[k])
        /\ Slice(Strip(id_text1), 0, 100) = Slice(Strip(id_text2), 0, 100)
               => id_out1 = id_out2

\* C9 witness: two texts that differ after trimming, one of them longer than
\* 100 characters, equal on the first 100, have been given ids.
C9_Witness ==
    /\ id_pc = "done"
    /\ Strip(id_text1) # Strip(id_text2)
    /\ Len(Strip(id_text1)) > 100
    /\ Slice(Strip(id_text1), 0, 100) = Slice(Strip(id_text2), 0, 100)
    /\ id_out1 = id_out2

\* C16: analyze_document never raises; if the text is None, or sent_tokenize
\* raises on a text that has a paragraph, the call returns an object with the
\* document id, an error description and empty paragraphs and sentences.
C16_ErrorObject ==
    /\ seg_pc # "raised"
    /\ (/\ seg_pc = "done"
        /\ \/ seg_fault = "no_text"
           \/ /\ seg_fault = "tokenizer"
              /\ \E k \in 1..Len(seg_text) : ~IsSpace(seg_text[k]))
            => /\ seg_result.document_id = SegDocId
               /\ "error" \in DOMAIN seg_result
               /\ seg_result.error # ""
               /\ seg_result.paragraphs = <<>>
               /\ seg_result.sentences = <<>>

\* C16 witness: sent_tokenize raised on a text with a paragraph, and the call
\* returned the error object.
C16_Witness ==
    /\ seg_pc = "done"
    /\ seg_fault = "tokenizer"
    /\ \E k \in 1..Len(seg_text) : seg_text[k] = "a"
    /\ "error" \in DOMAIN seg_result
    /\ seg_result.document_id = SegDocId
    /\ seg_result.paragraphs = <<>>

---------------------------------------------------------------------------
(* Claims about identify_themes *)

ThNext == identify_themes_call /\ UNCHANGED <<seg_vars, id_vars, r_vars, q_vars, c_vars, m_vars, x_vars>>

SpecThemes == ThInit /\ [][ThNext]_vars

\* C10: with an empty match list or without a credential, identify_themes
\* returns the empty list and has made no generation call.
C10_ShortCircuit ==
    (th_pc = "done" /\ (th_matches = <<>> \/ ~th_key))
        => (th_result = <<>> /\ th_calls = 0)

\* C10 witness: identify_themes has returned for matches without a credential.
C10_Witness ==
    /\ th_pc = "done"
    /\ th_matches # <<>>
    /\ ~th_key
    /\ th_result = <<>>
    /\ th_calls = 0

\* C11: identify_themes never raises to its caller; for a non-empty match
\* list, if the generation call raises, or its response holds no JSON array,
\* or holds text between two arrays (so that neither the content nor the
\* salvaged span is JSON), identify_themes returns the empty list.
C11_NeverRaises ==
    /\ th_pc # "raised"
    /\ (/\ th_pc = "done"
        /\ th_calls = 1
        /\ \/ th_response = Raised
           \/ \A k \in 1..Len(th_response) : th_response[k].t # "array"
           \/ \E i, j, k \in 1..Len(th_response) :
                  /\ i < j /\ j < k
                  /\ th_response[i].t = "array"
                  /\ th_response[j].t = "prose"
                  /\ th_response[k].t = "array")
            => th_result = <<>>

\* C11 witness: the generation call was made for a non-empty match list and
\* raised, and identify_themes returned the empty list.
C11_Witness ==
    /\ th_pc = "done"
    /\ th_matches # <<>>
    /\ th_calls = 1
    /\ th_response = Raised
    /\ th_result = <<>>

\* the identifiers of the input matches: the filename, or "Doc <id>"
ThemeInputIds == {ThemeDocName(th_matches[k]) : k \in 1..Len(th_matches)}

\* the themes of a response that holds the text of one JSON array: bare,
\* between fences, or inside prose
ThemeResponseArray ==
    LET places == {k \in 1..Len(th_response) : th_response[k].t = "array"}
    IN  IF Cardinality(places) = 1
        THEN th_response[CHOOSE k \in places : TRUE].v
        ELSE <<>>

IsInputId(doc) == doc \in ThemeInputIds

\* C12: every theme identify_themes returns has a non-empty
\* supporting_documents list, which is the list of the upstream theme without
\* the identifiers that are not among the input matches' identifiers; an
\* upstream theme all of whose supporting documents are unknown is absent.
C12_SupportingDocuments ==
    (th_pc = "done" /\ th_calls = 1 /\ th_response # Raised) =>
        /\ \A k \in 1..Len(th_result) :
               /\ th_result[k].supporting_documents # <<>>
               /\ \A d \in 1..Len(th_result[k].supporting_documents) :
                      IsInputId(th_result[k].supporting_documents[d])
               /\ th_result[k].id \in 1..Len(ThemeResponseArray)
               /\ th_result[k].supporting_documents =
                      SelectSeq(ThemeResponseArray[th_result[k].id].supporting_documents,
                                IsInputId)
        /\ \A i \in 1..Len(ThemeResponseArray) :
               (\A d \in 1..Len(ThemeResponseArray[i].supporting_documents) :
                    ~IsInputId(ThemeResponseArray[i].supporting_documents[d]))
                   => \A k \in 1..Len(th_result) : th_result[k].id # i

\* C12 witness: of two upstream themes, the one supported by DOC999 alone is
\* absent, and the one supported by DOC999 and DOC001 is returned with DOC001.
C12_Witness ==
    /\ th_pc = "done"
    /\ ThemeInputIds = {"DOC001"}
    /\ Len(ThemeResponseArray) = 2
    /\ ThemeResponseArray[1].supporting_documents = <<"DOC999">>
    /\ ThemeResponseArray[2].supporting_documents = <<"DOC999", "DOC001">>
    /\ Len(th_result) = 1
    /\ th_result[1].id = 2
    /\ th_result[1].supporting_documents = <<"DOC001">>

---------------------------------------------------------------------------
(* Claims about the citation resolver *)

ResolveNext == resolve_call /\ UNCHANGED <<seg_vars, id_vars, th_vars, q_vars, c_vars, m_vars, x_vars>>

SpecResolve == ResolveInit /\ [][ResolveNext]_vars

\* C4: in the end-to-end document, at sentence level, a match with the text
\* "Second sentence." and no paragraph or page hint resolves to paragraph
\* index 1, sentence index 1 and the citation "<filename>, Para 2, Sentence 2".
C4_EndToEnd ==
    (/\ r_pc = "done"
     /\ r_level = "sentence"
     /\ r_item.id = 1
     /\ r_item.filename # NoFilename
     /\ r_item.matched_text = SecondSentence
     /\ r_item.paragraph \in {Missing, None}
     /\ r_item.page = None
     /\ r_item.citation = NoCitation)
        => /\ r_out.paragraph = 1
           /\ r_out.sentence = 1
           /\ r_out.citation = r_item.filename \o ", Para 2, Sentence 2"

\* C4 witness: the end-to-end match has been resolved to "e2e.pdf, Para 2, Sentence 2".
C4_Witness ==
    /\ r_pc = "done"
    /\ r_level = "sentence"
    /\ r_shape = "list"
    /\ r_item = Item(1, "e2e.pdf", SecondSentence, Missing, None, 90, NoCitation)
    /\ r_out.citation = "e2e.pdf, Para 2, Sentence 2"

\* the number n of the "para n" or "paragraph n" a citation text holds
CitedParagraphNumber(citation) ==
    CASE citation = "see page 3, para 2" -> 2
      [] citation = "Paragraph 0" -> 0
      [] OTHER -> None

\* the number n of the "page n" a citation text holds
CitedPageNumber(citation) ==
    CASE citation = "see page 3, para 2" -> 3
      [] OTHER -> None

\* C24: for an item of an upstream array, call_gemini_api sets a paragraph
\* that is not given as a field to n - 1 if the citation text holds "para n"
\* or "paragraph n", and a page that is not given to n if it holds "page n";
\* a field that is given is kept; every stored paragraph index is >= 0.
C24_CoercionRecovery ==
    (r_pc = "done" /\ r_shape = "list") =>
        /\ Get(r_item.paragraph) # None => r_in.paragraph = r_item.paragraph
        /\ Get(r_item.page) # None => r_in.page = r_item.page
        /\ (Get(r_item.paragraph) = None /\ CitedParagraphNumber(r_item.citation) # None) =>
               r_in.paragraph = CitedParagraphNumber(r_item.citation) - 1
        /\ (Get(r_item.page) = None /\ CitedPageNumber(r_item.citation) # None) =>
               r_in.page = CitedPageNumber(r_item.citation)
        /\ Get(r_in.paragraph) # None => r_in.paragraph >= 0

\* lines 166-178: the resolver goes through a match that names a document of
\* the batch and has a text, at a level other than "document"
Resolving ==
    /\ r_pc = "done"
    /\ r_level \in {"paragraph", "sentence"}
    /\ \E k \in 1..ChunkSize : StoreDocs[k].id = r_in.id
    /\ r_in.matched_text # <<>>

\* doc["analysis"] of the match's document
MatchAnalysis == StoreAnalysis[CHOOSE k \in 1..ChunkSize : StoreDocs[k].id = r_in.id]

\* the places of the paragraphs with the index the match carries
IndexedPlaces ==
    {k \in 1..Len(MatchAnalysis.paragraphs) :
        MatchAnalysis.paragraphs[k].index = Get(r_in.paragraph)}

\* the places of the paragraphs whose content contains the matched text
ContainingPlaces ==
    {k \in 1..Len(MatchAnalysis.paragraphs) :
        Contains(MatchAnalysis.paragraphs[k].content, r_in.matched_text)}

\* the match's paragraph, paragraph_id and position are those of the paragraph at place k
ResolvedTo(k) ==
    /\ r_out.paragraph = MatchAnalysis.paragraphs[k].index
    /\ r_out.paragraph_id = MatchAnalysis.paragraphs[k].id
    /\ r_out.position = MatchAnalysis.paragraphs[k].position

\* C18: at paragraph and sentence level, a match that carries the index of a
\* paragraph of its document is resolved to that paragraph, wherever its text
\* occurs; otherwise it is resolved to the lowest-index paragraph whose
\* content contains the matched text; paragraph, paragraph_id and position
\* are set from the resolved paragraph.
C18_ParagraphOrder ==
    Resolving =>
        /\ IndexedPlaces # {} =>
               \E k \in IndexedPlaces : ResolvedTo(k)
        /\ (IndexedPlaces = {} /\ ContainingPlaces # {}) =>
               \E k \in ContainingPlaces :
                   /\ ResolvedTo(k)
                   /\ \A j \in ContainingPlaces :
                          MatchAnalysis.paragraphs[k].index <= MatchAnalysis.paragraphs[j].index

\* the match carries index 0 and the text of a sentence of the paragraph of
\* index 1: the paragraph of index 0 is resolved
C18_Witness ==
    /\ Resolving
    /\ r_in.id = 1
    /\ r_in.paragraph = 0
    /\ r_in.matched_text = SecondSentence
    /\ ContainingPlaces = {2}
    /\ r_out.paragraph = 0
    /\ r_out.paragraph_id = MatchAnalysis.paragraphs[1].id
    /\ r_out.position = MatchAnalysis.paragraphs[1].position

\* no paragraph of the document has the index the match carries and none
\* contains its text
NoParagraphResolved ==
    /\ Resolving
    /\ IndexedPlaces = {}
    /\ ContainingPlaces = {}

\* the citation ends with ", Para M" or ", Para M, Sentence S"
HasParaComponent(citation) ==
    \E name \in {"e2e.pdf", "Unknown", "Unknown document"}, page \in {None} \cup 0..9,
       n \in -1..(MaxParagraphHint + 1) :
        \/ citation = CitationPara(CitationHead(name, page), n)
        \/ \E s \in 0..3 : citation = CitationSentence(CitationHead(name, page), n, s)

\* C19: at paragraph or sentence level, a match for which no paragraph is
\* resolved keeps only its filename and page: its citation has no Para or
\* Sentence component and it gets no paragraph_id, position or sentence.
C19_NoParagraphResolved ==
    NoParagraphResolved =>
        /\ ~HasParaComponent(r_out.citation)
        /\ r_out.paragraph_id = NoId
        /\ r_out.position = NoPosition
        /\ r_out.sentence = None
        /\ r_out.sentence_id = NoId

\* the places, in doc["analysis"]["sentences"], of the sentences of the
\* paragraph the match was resolved to
ParagraphSentences ==
    {k \in 1..Len(MatchAnalysis.sentences) :
        MatchAnalysis.sentences[k].paragraph_index = r_out.paragraph}

\* the places of the sentences that equal or contain the matched text
ExactSentences ==
    {k \in ParagraphSentences :
        \/ MatchAnalysis.sentences[k].content = r_in.matched_text
        \/ Contains(MatchAnalysis.sentences[k].content, r_in.matched_text)}

\* the number of lower-cased words the matched text and the sentence at place k share
SharedWords(k) ==
    Cardinality(WordSet(Lower(r_in.matched_text))
                    \cap WordSet(Lower(MatchAnalysis.sentences[k].content)))

\* the match's sentence, sentence_id and citation are those of the sentence at place k
ChosenSentence(k) ==
    /\ r_out.sentence = MatchAnalysis.sentences[k].index
    /\ r_out.sentence_id = MatchAnalysis.sentences[k].id
    /\ r_out.citation =
           (IF r_in.filename = NoFilename THEN "Unknown" ELSE r_in.filename)
           \o (IF Get(r_in.page) # None /\ r_in.page # 0
               THEN ", Page " \o ToString(r_in.page) ELSE "")
           \o ", Para " \o ToString(r_out.paragraph + 1)
           \o ", Sentence " \o ToString(MatchAnalysis.sentences[k].index + 1)

\* C20: at sentence level, once a paragraph is resolved, the chosen sentence
\* is the lowest-index sentence of that paragraph that equals or contains the
\* matched text; if there is none, it is the sentence of that paragraph that
\* shares the most lower-cased words with the matched text, the lowest index
\* winning ties, also when no sentence shares a word; sentence, sentence_id
\* and citation are those of the chosen sentence.
C20_SentenceOrder ==
    (Resolving /\ r_level = "sentence" /\ r_out.paragraph_id # NoId
        /\ ParagraphSentences # {}) =>
        \E k \in ParagraphSentences :
            /\ ChosenSentence(k)
            /\ IF ExactSentences # {}
               THEN /\ k \in ExactSentences
                    /\ \A j \in ExactSentences :
                           MatchAnalysis.sentences[k].index <= MatchAnalysis.sentences[j].index
               ELSE \A j \in ParagraphSentences :
                       \/ SharedWords(j) < SharedWords(k)
                       \/ /\ SharedWords(j) = SharedWords(k)
                          /\ MatchAnalysis.sentences[k].index <= MatchAnalysis.sentences[j].index

\* the text of the whole second paragraph is in no sentence and shares two
\* words with each of the paragraph's two sentences: the first is chosen
C20_Witness ==
    /\ Resolving
    /\ r_level = "sentence"
    /\ r_in.id = 1
    /\ r_in.filename = "e2e.pdf"
    /\ r_in.matched_text = TextSecondParagraph
    /\ r_out.paragraph = 1
    /\ ExactSentences = {}
    /\ \A k \in ParagraphSentences : SharedWords(k) = 2
    /\ Cardinality(ParagraphSentences) = 2
    /\ r_out.sentence = 0
    /\ r_out.citation = "e2e.pdf, Para 2, Sentence 1"

---------------------------------------------------------------------------
(* Claims about process_query *)

\* the place in the answer of the match at place i of the matches before the
\* sort: after the matches of greater relevance and the earlier ones of equal
\* relevance
Rank(i) ==
    1 + Cardinality({j \in 1..Len(q_matches) :
                        \/ Relevance(q_matches[j]) > Relevance(q_matches[i])
                        \/ /\ Relevance(q_matches[j]) = Relevance(q_matches[i])
                           /\ j < i})

\* C1: process_query returns at most 10 matches, in order of non-increasing
\* relevance, and matches of equal relevance keep the order in which the
\* batches and the scans produced them.
C1_TopTenStable ==
    q_pc = "done" =>
        /\ Len(q_result) <= 10
        /\ \A k \in 1..(Len(q_result) - 1) :
               Relevance(q_result[k]) >= Relevance(q_result[k + 1])
        /\ \A i \in 1..Len(q_matches) :
               Rank(i) <= 10 => /\ Rank(i) <= Len(q_result)
                                /\ q_result[Rank(i)] = q_matches[i]

\* C1 witness: two batches produced more than 10 matches, and the answer has
\* both a step down in relevance and two different matches of equal relevance.
C1_Witness ==
    /\ q_pc = "done"
    /\ q_key
    /\ q_i > ChunkSize
    /\ Len(q_matches) > 10
    /\ Len(q_result) = 10
    /\ \E k \in 1..9 : Relevance(q_result[k]) > Relevance(q_result[k + 1])
    /\ \E k \in 1..9 : /\ Relevance(q_result[k]) = Relevance(q_result[k + 1])
                       /\ q_result[k] # q_result[k + 1]

\* C2: every match process_query returns has a relevance greater than or
\* equal to the caller's relevance_threshold, whichever strategy produced it.
C2_AboveThreshold ==
    q_pc = "done" =>
        \A k \in 1..Len(q_result) : Relevance(q_result[k]) >= q_threshold

\* whether the pipeline formatted the citation of the match (an item of an
\* object-shaped response keeps the citation text it came with, or none)
Formatted(match) ==
    /\ match.filename # NoFilename
    /\ match.citation # NoCitation
    /\ match.citation \notin RawCitations

\* Filename[, Page N][, Para M][, Sentence S] for the fields of the match,
\* with the page shown as `page_shown` says
CitationOf(match, page_shown) ==
    match.filename
        \o (IF page_shown THEN ", Page " \o ToString(match.page) ELSE "")
        \o (IF Get(match.paragraph) # None
            THEN ", Para " \o ToString(match.paragraph + 1) ELSE "")
        \o (IF match.sentence # None
            THEN ", Sentence " \o ToString(match.sentence + 1) ELSE "")

\* C3 as stated: every citation the pipeline formats is
\* Filename[, Page N][, Para M][, Sentence S], each field present exactly
\* when the match carries it, M and S one more than the stored indices.
C3_CitationFormat ==
    q_pc = "done" =>
        \A k \in 1..Len(q_result) :
            Formatted(q_result[k]) =>
                q_result[k].citation = CitationOf(q_result[k], Get(q_result[k].page) # None)

\* C3 amended: the same, except that Page N is present exactly when the match
\* carries a page other than 0.
C3_CitationFormatNonZeroPage ==
    q_pc = "done" =>
        \A k \in 1..Len(q_result) :
            Formatted(q_result[k]) =>
                q_result[k].citation =
                    CitationOf(q_result[k],
                               Get(q_result[k].page) # None /\ q_result[k].page # 0)

\* C3 witness: the answer holds a match with paragraph index 2 cited as
\* Para 3, and a match that carries page 0, resolved to a paragraph and a
\* sentence, whose citation shows the paragraph and the sentence and no page.
C3_Witness ==
    /\ q_pc = "done"
    /\ \E k \in 1..Len(q_result) :
           /\ q_result[k].paragraph = 2
           /\ q_result[k].citation = "gap.pdf, Para 3"
    /\ \E k \in 1..Len(q_result) :
           /\ q_result[k].page = 0
           /\ q_result[k].paragraph_id # NoId
           /\ q_result[k].sentence = 1
           /\ q_result[k].citation = "e2e.pdf, Para 2, Sentence 2"

\* C13: at citation level "document" every returned match has a citation
\* equal to its filename, and carries no paragraph id, position, sentence or
\* sentence id from the citation resolver.
C13_DocumentLevel ==
    (q_pc = "done" /\ q_level = "document") =>
        \A k \in 1..Len(q_result) :
            /\ q_result[k].citation = q_result[k].filename
            /\ q_result[k].paragraph_id = NoId
            /\ q_result[k].position = NoPosition
            /\ q_result[k].sentence = None
            /\ q_result[k].sentence_id = NoId

IsReadablePlace(k) == StoreDocs[k].id \notin q_unreadable

\* the requested documents that exist and can be read
SearchedDocs == SelectSeq(Documents(q_ids), IsReadablePlace)

\* a batch fails if the call raised or the response holds text that is no JSON
FailedResponse(response) ==
    \/ response = Raised
    \/ \E k \in 1..Len(response) : response[k].t = "prose"

\* what the batches b, b + 1, ... add when each is searched on its own, a
\* failed batch adding nothing
RECURSIVE BatchesFrom(_)
BatchesFrom(b) ==
    IF b > Len(q_responses) THEN <<>>
    ELSE (IF FailedResponse(q_responses[b]) THEN <<>>
          ELSE ChunkMatches(q_responses[b],
                            ChunkContents(SearchedDocs, (b - 1) * ChunkSize, q_level),
                            q_threshold, q_level))
         \o BatchesFrom(b + 1)

\* C14: process_query does not raise; a document whose content cannot be
\* read and a batch whose call raised or whose response is no JSON add no
\* match, and the answer is made of the matches of all other documents and
\* batches.
C14_FailureIsolation ==
    /\ q_pc # "raised"
    /\ q_pc = "done" =>
           /\ ~q_key => q_matches = BasicMatches(q_query, SearchedDocs, {}, q_level)
           /\ q_key => /\ q_docs = SearchedDocs
                       /\ q_matches = BatchesFrom(1)
           /\ Len(q_result) = Min(10, Len(q_matches))
           /\ \A k \in 1..Len(q_result) :
                  \E i \in 1..Len(q_matches) : q_result[k] = q_matches[i]

\* C14 witness: the call of the first batch raised, the second batch was
\* answered, and its matches are returned.
C14_Witness ==
    /\ q_pc = "done"
    /\ q_key
    /\ Len(q_responses) = 2
    /\ q_responses[1] = Raised
    /\ ~FailedResponse(q_responses[2])
    /\ q_result # <<>>
    /\ q_result = Top(SortByRelevance(BatchesFrom(2)))

\* C22: the relevance of every match process_query returns lies in [0, 1],
\* for both strategies and every upstream response.
C22_RelevanceInRange ==
    q_pc = "done" =>
        \A k \in 1..Len(q_result) :
            /\ Relevance(q_result[k]) >= 0
            /\ Relevance(q_result[k]) <= FullRelevance

\* the response as the fallback chain of the claim decodes it: the text that
\* parses strictly as it is, otherwise the array embedded in other text
Salvaged(response) ==
    IF response = Raised \/ QueryJsonLoadsOk(StripFence(response)) THEN response
    ELSE IF /\ ArrayPlaces(StripFence(response)) # {}
            /\ JsonLoadsOk(SalvagedText(StripFence(response)))
         THEN SalvagedText(StripFence(response))
         ELSE response

\* what the batches b, b + 1, ... add when each response is decoded by the
\* fallback chain
RECURSIVE SalvagedBatchesFrom(_)
SalvagedBatchesFrom(b) ==
    IF b > Len(q_responses) THEN <<>>
    ELSE ChunkMatches(Salvaged(q_responses[b]),
                      ChunkContents(SearchedDocs, (b - 1) * ChunkSize, q_level),
                      q_threshold, q_level)
         \o SalvagedBatchesFrom(b + 1)

\* C23: in the assisted strategy the response of each batch is stripped of
\* its fences and parsed strictly; if that fails and the text holds a JSON
\* array embedded in other text, the array is salvaged and its matches are
\* used; the batch is empty only if the salvage fails too.
C23_SalvageBeforeEmpty ==
    (q_pc = "done" /\ q_key) => q_matches = SalvagedBatchesFrom(1)

\* C30: the citation_level of a /query request is the level at which the
\* request is processed: the matches of a "document" request are cited by
\* the filename, those of a "paragraph" request down to a paragraph, those
\* of a "sentence" request down to a sentence.
C30_RequestedLevel ==
    /\ (q_request.via = "endpoint" /\ q_pc # "request") =>
           q_level = q_request.citation_level
    /\ (q_request.via = "endpoint" /\ q_pc = "done" /\ ~q_key) =>
           \A k \in 1..Len(q_result) :
               /\ q_request.citation_level = "document" =>
                      q_result[k].citation = q_result[k].filename
               /\ q_request.citation_level = "paragraph" =>
                      /\ Get(q_result[k].paragraph) # None
                      /\ q_result[k].sentence = None
               /\ q_request.citation_level = "sentence" =>
                      /\ Get(q_result[k].paragraph) # None
                      /\ q_result[k].sentence # None

\* query.lower().split()
QueryTerms == SplitWords(Lower(q_query), 0)

\* the number of query terms, a repeated term counted each time, that occur
\* in the lower-cased text
MatchingTerms(text) ==
    Cardinality({i \in 1..Len(QueryTerms) : Contains(Lower(text), QueryTerms[i])})

\* the units of text of the stored document at place k, at the level of the
\* search, with the fields that tell the match of a unit from the others
UnitsOf(k) ==
    IF q_level = "document"
    THEN {[id |-> StoreDocs[k].id, paragraph |-> Missing, sentence |-> None,
           text |-> StoreDocs[k].content]}
    ELSE IF q_level = "paragraph"
    THEN {[id |-> StoreDocs[k].id, paragraph |-> StoreAnalysis[k].paragraphs[j].index,
           sentence |-> None, text |-> StoreAnalysis[k].paragraphs[j].content] :
             j \in 1..Len(StoreAnalysis[k].paragraphs)}
    ELSE {[id |-> StoreDocs[k].id, paragraph |-> StoreAnalysis[k].sentences[j].paragraph_index,
           sentence |-> StoreAnalysis[k].sentences[j].index,
           text |-> StoreAnalysis[k].sentences[j].content] :
             j \in 1..Len(StoreAnalysis[k].sentences)}

\* the units of the documents searched
SearchedUnits == UNION {UnitsOf(SearchedDocs[k]) : k \in 1..Len(SearchedDocs)}

\* the places, in the matches before the sort, of the matches of the unit
MatchesOfUnit(u) ==
    {j \in 1..Len(q_matches) :
        /\ q_matches[j].id = u.id
        /\ q_matches[j].paragraph = u.paragraph
        /\ q_matches[j].sentence = u.sentence}

\* C21: in the keyword search the relevance of a unit of text (document,
\* paragraph or sentence, by citation_level) is min(1.0, 0.1 x the number of
\* query terms that occur in it, case-insensitively), and the unit is a
\* candidate match exactly when that relevance is at least 0.2, whatever the
\* caller's relevance_threshold.
C21_KeywordScoring ==
    (q_pc = "done" /\ ~q_key) =>
        /\ \A u \in SearchedUnits :
               IF 10 * MatchingTerms(u.text) >= 20
               THEN /\ Cardinality(MatchesOfUnit(u)) = 1
                    /\ \A j \in MatchesOfUnit(u) :
                           q_matches[j].relevance =
                               (IF 10 * MatchingTerms(u.text) > 100 THEN 100
                                ELSE 10 * MatchingTerms(u.text))
               ELSE MatchesOfUnit(u) = {}
        /\ \A j \in 1..Len(q_matches) : \E u \in SearchedUnits : j \in MatchesOfUnit(u)

\* the eleven terms of the query occur in a sentence, which is a candidate
\* of relevance 1.0, and a sentence in which none occurs is no candidate, the
\* threshold being 0.7
C21_Witness ==
    /\ q_pc = "done"
    /\ ~q_key
    /\ q_level = "sentence"
    /\ q_threshold = 70
    /\ \E u \in SearchedUnits :
           /\ MatchingTerms(u.text) = 11
           /\ \E j \in MatchesOfUnit(u) : q_matches[j].relevance = 100
    /\ \E u \in SearchedUnits : MatchingTerms(u.text) = 0 /\ MatchesOfUnit(u) = {}

\* the ids a sequence of ids names
IdSet(ids) == {ids[k] : k \in 1..Len(ids)}

\* C15: when the caller names document_ids, the documents searched are
\* exactly the named ones that exist, and no match of another document is
\* returned, through process_query and through the endpoint alike.
C15_OnlyRequestedDocuments ==
    (q_pc = "done" /\ q_request.document_ids # <<>>) =>
        /\ {StoreDocs[k].id : k \in IdSet(Documents(q_ids))}
               = {StoreDocs[k].id : k \in 1..Len(StoreDocs)} \cap IdSet(q_request.document_ids)
        /\ \A k \in 1..Len(q_result) : q_result[k].id \in IdSet(q_request.document_ids)

---------------------------------------------------------------------------
(* Claims about get_document_chunk *)

\* the chunk_index of the last call made
AskedIndex == c_index - 1

\* C17: for a stored content C, a chunk_size s >= 1 and a chunk_index k >= 0,
\* get_document_chunk returns None when k * s >= len(C); otherwise its content
\* is C[k*s : min((k+1)*s, len(C))], of length at most s, and is_last_chunk is
\* true exactly for the chunk that reaches the end of C, so the chunks 0, 1,
\* ... up to the one flagged last, joined, are C.
C17_Chunking ==
    (c_pc \in {"reading", "end"} /\ c_index > 0 /\ c_doc = "stored") =>
        LET k == AskedIndex
            first == k * c_size
            last == IF (k + 1) * c_size <= Len(c_content) THEN (k + 1) * c_size
                    ELSE Len(c_content)
        IN  IF first >= Len(c_content) THEN c_out = NoChunk
            ELSE /\ c_out # NoChunk
                 /\ c_out.document_id = ChunkDocId
                 /\ c_out.chunk_index = k
                 /\ c_out.content = [i \in 1..(last - first) |-> c_content[first + i]]
                 /\ Len(c_out.content) <= c_size
                 /\ c_out.is_last_chunk <=> (last = Len(c_content))
                 /\ c_out.is_last_chunk => c_read = c_content

\* a content of five characters read in chunks of two: the third chunk is the
\* last, holds one character, and the three chunks joined are the content
C17_Witness ==
    /\ c_pc = "reading"
    /\ c_doc = "stored"
    /\ c_content = <<"a", "b", "a", "b", "b">>
    /\ c_size = 2
    /\ c_index = 3
    /\ c_out.content = <<"b">>
    /\ c_out.is_last_chunk
    /\ c_read = c_content

---------------------------------------------------------------------------
(* Claims about the merge of similar themes *)

\* the lower-cased words of a theme name
NameWords(name) == WordSet(Lower(name))

\* |W1 n W2| / |W1 u W2| >= t, t in hundredths; not so with an empty union
OverlapAtLeast(name1, name2, t) ==
    /\ NameWords(name1) \cup NameWords(name2) # {}
    /\ 100 * Cardinality(NameWords(name1) \cap NameWords(name2))
           >= t * Cardinality(NameWords(name1) \cup NameWords(name2))

\* C25: are_themes_similar(a, b, t) is true exactly when the word sets of the
\* two names, case ignored, have |W1 n W2| / |W1 u W2| >= t, and false when
\* the union is empty; so merge_similar_themes, with its threshold 0.8,
\* merges no two themes whose names overlap by less than 0.8.
C25_SimilarByOverlap ==
    /\ m_pc = "compared" =>
           (m_similar.truth <=> OverlapAtLeast(m_similar.theme1, m_similar.theme2, m_t))
    /\ (m_pc = "merged"
           /\ \A i, j \in 1..Len(m_themes) :
                  i # j => ~OverlapAtLeast(m_themes[i].name, m_themes[j].name, DefaultSimilarity))
        => Len(m_merged) = Len(m_themes)

\* the input places that the assignment f gives to the output theme g
GroupOf(f, g) == {i \in DOMAIN f : f[i] = g}

\* the evidences of the places of S from place i on, in input order, one a line
RECURSIVE JoinedEvidence(_, _)
JoinedEvidence(S, i) ==
    IF i > Len(m_themes) THEN ""
    ELSE IF i \notin S THEN JoinedEvidence(S, i + 1)
    ELSE IF \E j \in S : j > i
         THEN m_themes[i].evidence \o "\n" \o JoinedEvidence(S, i + 1)
         ELSE m_themes[i].evidence

\* C26: merge_similar_themes partitions its input: every input theme is the
\* seed of exactly one output theme or absorbed into exactly one, so nothing
\* is lost or duplicated and the output is no longer than the input; an
\* output theme has the name of its seed, the largest relevance of its group
\* and the evidences of its group joined in input order.
C26_MergePartition ==
    m_pc = "merged" =>
        /\ Len(m_merged) <= Len(m_themes)
        /\ \E f \in [1..Len(m_themes) -> 1..Len(m_merged)] :
               \A g \in 1..Len(m_merged) :
                   /\ GroupOf(f, g) # {}
                   /\ \E seed \in GroupOf(f, g) :
                          /\ \A i \in GroupOf(f, g) : seed <= i
                          /\ m_merged[g].name = m_themes[seed].name
                          /\ m_merged[g].description = m_themes[seed].description
                   /\ \E top \in GroupOf(f, g) :
                          /\ m_merged[g].relevance = m_themes[top].relevance
                          /\ \A i \in GroupOf(f, g) :
                                 m_themes[i].relevance <= m_themes[top].relevance
                   /\ m_merged[g].evidence = JoinedEvidence(GroupOf(f, g), 1)

\* three themes, the third absorbed into the first, the second on its own
C26_Witness ==
    /\ m_pc = "merged"
    /\ Len(m_themes) = 3
    /\ m_themes[1].name = NameUpper
    /\ m_themes[1].relevance = 50
    /\ m_themes[2].name = <<>>
    /\ m_themes[3].name = NameLower
    /\ m_themes[3].relevance = 90
    /\ Len(m_merged) = 2
    /\ m_merged[1].name = NameUpper
    /\ m_merged[1].relevance = 90
    /\ m_merged[1].evidence = "e1\ne3"
    /\ m_merged[2] = m_themes[2]

---------------------------------------------------------------------------
(* Claims about identify_themes_across_documents *)

\* the themes of the key sections of the documents from place k on, a
\* section whose extraction raises giving none
RECURSIVE SectionThemesFrom(_)
SectionThemesFrom(k) ==
    IF k > Len(x_docs) THEN <<>>
    ELSE ProcessDocumentBody(x_docs[k], DefaultThemeRelevance) \o SectionThemesFrom(k + 1)

\* C27: for a non-empty list of documents identify_themes_across_documents
\* completes and returns at most max_themes merged themes, in order of
\* non-increasing relevance, made of the themes of the key sections of every
\* document.
C27_AcrossDocuments ==
    x_docs # <<>> =>
        /\ x_pc # "raised"
        /\ x_pc = "done" =>
               /\ Len(x_result) <= x_max_themes
               /\ \A k \in 1..(Len(x_result) - 1) :
                      x_result[k].relevance >= x_result[k + 1].relevance
               /\ x_result = MergedTop(SectionThemesFrom(1), x_max_themes)

\* C28: with an empty list of documents identify_themes_across_documents
\* returns the empty list, does not raise and makes no generation call.
C28_EmptyDocuments ==
    x_docs = <<>> =>
        /\ x_pc # "raised"
        /\ x_calls = 0
        /\ x_pc = "done" => x_result = <<>>

\* C29: the per-document units run on a pool of min(MAX_DOCUMENTS_PER_BATCH,
\* number of documents) workers, the results are merged only after every
\* unit has ended, and a section or document whose extraction raises gives
\* an empty list while the call returns the merged themes of the others.
C29_GatherSemantics ==
    /\ x_pc \in {"running", "gathered", "done"} =>
           /\ x_workers = (IF Len(x_docs) < MaxDocumentsPerBatch THEN Len(x_docs)
                            ELSE MaxDocumentsPerBatch)
           /\ Cardinality({k \in 1..Len(x_tasks) : x_tasks[k] = "running"}) <= x_workers
    /\ x_pc \in {"gathered", "done"} => \A k \in 1..Len(x_tasks) : x_tasks[k] = "done"
    /\ (\E k \in 1..Len(x_docs) : \E s \in 1..Len(x_docs[k]) : x_docs[k][s].raised) =>
           /\ x_pc # "raised"
           /\ x_pc = "done" => x_result = MergedTop(SectionThemesFrom(1), x_max_themes)

====
